---- MODULE Spec2Model ----
(***************************************************************************)
(* A model of the k6foundry native builder: nativeBuilder.Build and the    *)
(* manifest steps of goEnv (native.go, goenv.go), with the process         *)
(* supervisor goEnv.runGo modelled step by step: the started process, the  *)
(* background waiter goroutine, the unbuffered completion channel, the     *)
(* context with its optional deadline and the grace timer.                 *)
(*                                                                         *)
(* Strings are sequences of one-character strings so that the path and     *)
(* version rules are computed, not assumed.  Errors are records that keep  *)
(* what errors.Is can see (the %w chain) apart from the message text.      *)
(***************************************************************************)
EXTENDS Integers, Sequences, FiniteSets, TLC

(***************************************************************************)
(* Bounds of the model and constants of the program.                       *)
(***************************************************************************)
MaxExts == 2

GraceWindow == 15

InitTimeout == 10

(***************************************************************************)
(* Strings.                                                                *)
(***************************************************************************)
Digits == {"0", "1", "2", "3", "4", "5", "6", "7", "8", "9"}

Max(S) == CHOOSE x \in S : \A y \in S : y <= x

Tail0(s, i) == SubSeq(s, i, Len(s))

\* length of the longest prefix of v made of digits
DigitRun(v) == Max({k \in 0..Len(v) : \A j \in 1..k : v[j] \in Digits})

latest == <<"l", "a", "t", "e", "s", "t">>

defaultK6ModulePath == <<"g", "o", ".", "k", "6", ".", "i", "o", "/", "k", "6">>

(***************************************************************************)
(* golang.org/x/mod/semver as used by versionedModulePath and ParseModule:  *)
(* IsValid, Major, Canonical.                                              *)
(***************************************************************************)
semverParseInt(v) ==
    IF v = <<>> \/ v[1] \notin Digits
    THEN [ok |-> FALSE, t |-> <<>>, rest |-> v]
    ELSE LET i == DigitRun(v)
         IN  IF v[1] = "0" /\ i # 1
             THEN [ok |-> FALSE, t |-> <<>>, rest |-> v]
             ELSE [ok |-> TRUE, t |-> SubSeq(v, 1, i), rest |-> Tail0(v, i + 1)]

Letters == {"a", "b", "c", "e", "l", "r", "s", "t", "v", "x", "y"}

IdentChars == Digits \cup Letters \cup {"-"}

\* a dot-separated field of a pre-release or build tag, s[from..to)
semverBadNum(f) == Len(f) > 1 /\ f[1] = "0" /\ \A j \in 1..Len(f) : f[j] \in Digits

semverFieldsOk(body, numeric) ==
    LET dots   == {0, Len(body) + 1} \cup {j \in 1..Len(body) : body[j] = "."}
        next(j) == CHOOSE k \in dots : k > j /\ \A m \in dots : m > j => k <= m
    IN  /\ \A j \in 1..Len(body) : body[j] \in IdentChars \cup {"."}
        /\ \A j \in dots \ {Len(body) + 1} :
              LET f == SubSeq(body, j + 1, next(j) - 1)
              IN  f # <<>> /\ (numeric => ~semverBadNum(f))

\* the tail of a version after MAJOR.MINOR.PATCH: [-prerelease][+build]
semverTailOk(v) ==
    LET plus  == {j \in 1..Len(v) : v[j] = "+"}
        cut   == IF plus = {} THEN Len(v) + 1
                 ELSE CHOOSE j \in plus : \A k \in plus : j <= k
        pre   == SubSeq(v, 1, cut - 1)
        build == Tail0(v, cut)
    IN  /\ pre # <<>> => pre[1] = "-" /\ semverFieldsOk(Tail0(pre, 2), TRUE)
        /\ build # <<>> => semverFieldsOk(Tail0(build, 2), FALSE)

\* the build tag of the tail of a version: from the first "+" on
semverBuild(v) ==
    LET plus == {j \in 1..Len(v) : v[j] = "+"}
    IN  IF plus = {} THEN <<>> ELSE Tail0(v, CHOOSE j \in plus : \A k \in plus : j <= k)

\* short: what a version written vMAJOR or vMAJOR.MINOR lacks
semverParse(v) ==
    LET bad == [ok |-> FALSE, major |-> <<>>, short |-> <<>>, build |-> <<>>]
    IN  IF v = <<>> \/ v[1] # "v" THEN bad
        ELSE LET ma == semverParseInt(Tail0(v, 2))
             IN  IF ~ma.ok THEN bad
                 ELSE IF ma.rest = <<>>
                 THEN [ok |-> TRUE, major |-> ma.t, short |-> <<".", "0", ".", "0">>,
                       build |-> <<>>]
                 ELSE IF ma.rest[1] # "." THEN bad
                 ELSE LET mi == semverParseInt(Tail0(ma.rest, 2))
                      IN  IF ~mi.ok THEN bad
                          ELSE IF mi.rest = <<>>
                          THEN [ok |-> TRUE, major |-> ma.t, short |-> <<".", "0">>,
                                build |-> <<>>]
                          ELSE IF mi.rest[1] # "." THEN bad
                          ELSE LET pa == semverParseInt(Tail0(mi.rest, 2))
                               IN  IF ~pa.ok THEN bad
                                   ELSE IF semverTailOk(pa.rest)
                                        THEN [ok |-> TRUE, major |-> ma.t, short |-> <<>>,
                                              build |-> semverBuild(pa.rest)]
                                        ELSE bad

semverIsValid(v) == semverParse(v).ok

semverMajor(v) == IF semverParse(v).ok THEN <<"v">> \o semverParse(v).major ELSE <<>>

\* faulty variant of semverCanonical: the version is kept as it was written
semverCanonical_asWritten(v) == v

\* Canonical: the build tag dropped, a short version completed with zeros
semverCanonical(v) ==
    LET p == semverParse(v)
    IN  IF ~p.ok THEN <<>>
        ELSE IF p.build # <<>> THEN SubSeq(v, 1, Len(v) - Len(p.build))
        ELSE IF p.short # <<>> THEN v \o p.short
        ELSE v

(***************************************************************************)
(* moduleVersionRegexp `.+/v(\d+)$`, filepath.Base and filepath.Join on    *)
(* slash-separated paths.                                                  *)
(***************************************************************************)
LastSlash(p) == Max({0} \cup {j \in 1..Len(p) : p[j] = "/"})

filepathBase(p) == Tail0(p, LastSlash(p) + 1)

moduleVersionRegexpMatch(p) ==
    LET s == LastSlash(p)
        b == filepathBase(p)
    IN  /\ s >= 2
        /\ Len(b) >= 2
        /\ b[1] = "v"
        /\ \A j \in 2..Len(b) : b[j] \in Digits

\* the elements of p between its slashes
RECURSIVE SplitSlash(_)
SplitSlash(p) ==
    LET sl == {j \in 1..Len(p) : p[j] = "/"}
    IN  IF sl = {} THEN <<p>>
        ELSE LET k == CHOOSE j \in sl : \A m \in sl : j <= m
             IN  <<SubSeq(p, 1, k - 1)>> \o SplitSlash(Tail0(p, k + 1))

RECURSIVE JoinSlash(_)
JoinSlash(elems) ==
    IF elems = <<>> THEN <<>>
    ELSE IF Len(elems) = 1 THEN elems[1]
    ELSE elems[1] \o <<"/">> \o JoinSlash(Tail(elems))

\* filepath.Clean on the elements: empty and "." elements dropped, ".."
\* removing the element before it
RECURSIVE CleanElems(_, _, _)
CleanElems(elems, kept, rooted) ==
    IF elems = <<>> THEN kept
    ELSE LET e == elems[1]
             rest == Tail(elems)
         IN  IF e = <<>> \/ e = <<".">> THEN CleanElems(rest, kept, rooted)
             ELSE IF e = <<".", ".">>
             THEN IF kept # <<>> /\ kept[Len(kept)] # <<".", ".">>
                  THEN CleanElems(rest, SubSeq(kept, 1, Len(kept) - 1), rooted)
                  ELSE IF rooted THEN CleanElems(rest, kept, rooted)
                  ELSE CleanElems(rest, Append(kept, e), rooted)
             ELSE CleanElems(rest, Append(kept, e), rooted)

filepathClean(p) ==
    IF p = <<>> THEN <<".">>
    ELSE LET rooted == p[1] = "/"
             body == JoinSlash(CleanElems(SplitSlash(p), <<>>, rooted))
         IN  IF rooted THEN <<"/">> \o body
             ELSE IF body = <<>> THEN <<".">> ELSE body

\* filepath.Join: the non-empty arguments joined by a slash, then cleaned
filepathJoin(p, q) ==
    IF p = <<>> /\ q = <<>> THEN <<>>
    ELSE IF p = <<>> THEN filepathClean(q)
    ELSE IF q = <<>> THEN filepathClean(p)
    ELSE filepathClean(p \o <<"/">> \o q)

ReplaceAll(s, old, new) == [j \in 1..Len(s) |-> IF s[j] = old THEN new ELSE s[j]]

(***************************************************************************)
(* Errors.  is: the sentinels errors.Is finds through the %w chain;         *)
(* text: the message, as the sequence of sentinel names it mentions.       *)
(***************************************************************************)
NoError == [nil |-> TRUE, is |-> {}, text |-> <<>>]

ErrorNew(s) == [nil |-> FALSE, is |-> {s}, text |-> <<s>>]

\* fmt.Errorf("%w: %s", sentinel, err.Error()): only the sentinel is wrapped
ErrorfSentinel(s, err) == [nil |-> FALSE, is |-> {s}, text |-> <<s>> \o err.text]

\* fmt.Errorf("<prefix> %w", err): err stays in the chain
ErrorfWrap(prefix, err) == [nil |-> FALSE, is |-> err.is, text |-> <<prefix>> \o err.text]

ErrorsIs(err, target) == target \in err.is

CancellationKinds == {"context.Canceled", "context.DeadlineExceeded"}

\* faulty variant of versionedModulePath: the major is appended without
\* looking at the end of the path
versionedModulePath_alwaysAppends(modulePath, moduleVersion) ==
    IF ~semverIsValid(moduleVersion)
    THEN [path |-> modulePath, err |-> NoError]
    ELSE LET major == semverMajor(moduleVersion)
         IN  IF major \in {<<"v", "0">>, <<"v", "1">>}
             THEN [path |-> modulePath, err |-> NoError]
             ELSE [path |-> filepathJoin(modulePath, major), err |-> NoError]

\* returns the module path with the major component of the version added
versionedModulePath(modulePath, moduleVersion) ==
    IF ~semverIsValid(moduleVersion)
    THEN [path |-> modulePath, err |-> NoError]
    ELSE LET major == semverMajor(moduleVersion)
         IN  IF moduleVersionRegexpMatch(modulePath)
             THEN IF filepathBase(modulePath) # major
                  THEN [path |-> <<>>, err |-> ErrorNew("versioned module path conflicts")]
                  ELSE [path |-> modulePath, err |-> NoError]
             ELSE IF major \in {<<"v", "0">>, <<"v", "1">>}
                  THEN [path |-> modulePath, err |-> NoError]
                  ELSE [path |-> filepathJoin(modulePath, major), err |-> NoError]

(***************************************************************************)
(* ParseModule (module.go, dependency.go) with strings.Cut and             *)
(* golang.org/x/mod/module.CheckPath.                                      *)
(***************************************************************************)
\* strings.Cut(s, sep): s around the first sep
stringsCut(s, sep) ==
    LET at == {j \in 1..Len(s) : s[j] = sep}
    IN  IF at = {} THEN [before |-> s, after |-> <<>>, found |-> FALSE]
        ELSE LET k == CHOOSE j \in at : \A m \in at : j <= m
             IN  [before |-> SubSeq(s, 1, k - 1), after |-> Tail0(s, k + 1), found |-> TRUE]

\* module.SplitPathVersion: FALSE for a path ending in /v0, /v1, /v0N or /vN.M
SplitPathVersionOk(path) ==
    LET back == Max({k \in 0..Len(path) :
                       \A j \in (Len(path) - k + 1)..Len(path) : path[j] \in Digits \cup {"."}})
        i == Len(path) - back
        dot == \E j \in (i + 1)..Len(path) : path[j] = "."
    IN  IF i <= 1 \/ i = Len(path) \/ path[i] # "v" \/ path[i - 1] # "/" THEN TRUE
        ELSE ~(dot \/ Len(path) - i < 1 \/ path[i + 1] = "0"
               \/ Tail0(path, i - 1) = <<"/", "v", "1">>)

\* module.CheckPath: elements non-empty, of allowed characters, without a
\* leading or trailing dot; a dot in the first element; a valid major suffix
CheckPath(path) ==
    LET elems == SplitSlash(path)
    IN  /\ path # <<>>
        /\ path[1] # "-"
        /\ \A j \in 1..Len(elems) :
              /\ elems[j] # <<>>
              /\ elems[j][1] # "." /\ elems[j][Len(elems[j])] # "."
              /\ \A k \in 1..Len(elems[j]) :
                    elems[j][k] \in Letters \cup Digits \cup {"-", ".", "_", "~"}
        /\ \E k \in 1..Len(elems[1]) : elems[1][k] = "."
        /\ \A k \in 1..Len(elems[1]) : elems[1][k] \in Letters \cup Digits \cup {"-", "."}
        /\ SplitPathVersionOk(path)

\* fmt.Errorf("%w: %q", sentinel, mod)
ErrorfQuoted(sentinel, mod) == [nil |-> FALSE, is |-> {sentinel}, text |-> <<sentinel, "mod">>]

NoModule == [PackagePath |-> <<>>, Version |-> <<>>]

\* the version ParseModule keeps: latest for none, the canonical form of a
\* semantic version, an error for anything else
ParseVersion(mod, version) ==
    IF version = <<>> THEN [version |-> latest, err |-> NoError]
    ELSE IF version = latest THEN [version |-> latest, err |-> NoError]
    ELSE IF ~semverIsValid(version)
    THEN [version |-> <<>>, err |-> ErrorfQuoted("ErrInvalidSemanticVersion", mod)]
    ELSE [version |-> semverCanonical(version), err |-> NoError]

\* faulty variant of ParseModule: the version and the path are checked
\* before the format, so that an empty version after '@' becomes latest
ParseModule_formatLast(mod) ==
    LET c == stringsCut(mod, "@")
        v == ParseVersion(mod, c.after)
    IN  IF ~v.err.nil THEN [mod |-> NoModule, err |-> v.err]
        ELSE IF ~CheckPath(c.before)
        THEN [mod |-> NoModule, err |-> ErrorfQuoted("ErrInvalidPath", mod)]
        ELSE IF c.found /\ c.before = <<>>
        THEN [mod |-> NoModule, err |-> ErrorfQuoted("ErrInvalidDependencyFormat", mod)]
        ELSE [mod |-> [PackagePath |-> c.before, Version |-> v.version], err |-> NoError]

\* faulty variant of ParseModule: the version latest is stored as no version
ParseModule_latestAsNone(mod) ==
    LET c == stringsCut(mod, "@")
        v == ParseVersion(mod, c.after)
    IN  IF c.found /\ (c.before = <<>> \/ c.after = <<>>)
        THEN [mod |-> NoModule, err |-> ErrorfQuoted("ErrInvalidDependencyFormat", mod)]
        ELSE IF ~v.err.nil THEN [mod |-> NoModule, err |-> v.err]
        ELSE IF ~CheckPath(c.before)
        THEN [mod |-> NoModule, err |-> ErrorfQuoted("ErrInvalidPath", mod)]
        ELSE [mod |-> [PackagePath |-> c.before,
                       Version |-> IF v.version = latest THEN <<>> ELSE v.version],
              err |-> NoError]

\* ParseModule of module.go:136-164 and dependency.go:30-58
ParseModule(mod) ==
    LET c == stringsCut(mod, "@")
        v == ParseVersion(mod, c.after)
    IN  IF c.found /\ (c.before = <<>> \/ c.after = <<>>)
        THEN [mod |-> NoModule, err |-> ErrorfQuoted("ErrInvalidDependencyFormat", mod)]
        ELSE IF ~v.err.nil THEN [mod |-> NoModule, err |-> v.err]
        ELSE IF ~CheckPath(c.before)
        THEN [mod |-> NoModule, err |-> ErrorfQuoted("ErrInvalidPath", mod)]
        ELSE [mod |-> [PackagePath |-> c.before, Version |-> v.version], err |-> NoError]

\* ParseModule of module.go:34-69, which ends with versionedPath
ParseModuleVersionedPath(mod) ==
    LET r == ParseModule(mod)
        vp == versionedModulePath(r.mod.PackagePath, r.mod.Version)
    IN  IF ~r.err.nil THEN r
        ELSE IF ~vp.err.nil
        THEN [mod |-> NoModule, err |-> ErrorfQuoted("ErrInvalidPath", mod)]
        ELSE [mod |-> [PackagePath |-> vp.path, Version |-> r.mod.Version], err |-> NoError]

NoModuleReplace ==
    [Path |-> <<>>, Version |-> <<>>, ReplacePath |-> <<>>, ReplaceVersion |-> <<>>]

\* a replacement path on the local filesystem: it starts with a dot
RelativePath(path) == path # <<>> /\ path[1] = "."

\* faulty variant of ParseModuleReplace: the version written after a local
\* replacement path is dropped
ParseModuleReplace_dropsVersion(mod) ==
    LET e == stringsCut(mod, "=")
        c == stringsCut(e.before, "@")
        r == stringsCut(e.after, "@")
        v == ParseVersion(mod, c.after)
    IN  IF c.found /\ (c.before = <<>> \/ c.after = <<>>)
        THEN [mod |-> NoModuleReplace, err |-> ErrorfQuoted("ErrInvalidDependencyFormat", mod)]
        ELSE IF e.found /\ (r.before = <<>> \/ (r.found /\ r.after = <<>>))
        THEN [mod |-> NoModuleReplace, err |-> ErrorfQuoted("ErrInvalidDependencyFormat", mod)]
        ELSE IF ~v.err.nil THEN [mod |-> NoModuleReplace, err |-> v.err]
        ELSE IF ~CheckPath(c.before)
        THEN [mod |-> NoModuleReplace, err |-> ErrorfQuoted("ErrInvalidPath", mod)]
        ELSE [mod |-> [Path |-> c.before, Version |-> v.version, ReplacePath |-> r.before,
                       ReplaceVersion |-> IF RelativePath(r.before) THEN <<>> ELSE r.after],
              err |-> NoError]

\* faulty variant of ParseModuleReplace: the specification is cut at '@'
\* before it is cut at '='
ParseModuleReplace_atFirst(mod) ==
    LET c == stringsCut(mod, "@")
        e == stringsCut(c.before, "=")
        v == ParseVersion(mod, c.after)
    IN  IF c.found /\ (c.before = <<>> \/ c.after = <<>>)
        THEN [mod |-> NoModuleReplace, err |-> ErrorfQuoted("ErrInvalidDependencyFormat", mod)]
        ELSE IF e.found /\ e.after = <<>>
        THEN [mod |-> NoModuleReplace, err |-> ErrorfQuoted("ErrInvalidDependencyFormat", mod)]
        ELSE IF ~v.err.nil THEN [mod |-> NoModuleReplace, err |-> v.err]
        ELSE IF ~CheckPath(e.before)
        THEN [mod |-> NoModuleReplace, err |-> ErrorfQuoted("ErrInvalidPath", mod)]
        ELSE [mod |-> [Path |-> e.before, Version |-> v.version, ReplacePath |-> e.after,
                       ReplaceVersion |-> <<>>],
              err |-> NoError]

\* ParseModule of the revision module_test.go:73-107 tests, for
\* path[@version][=replacePath[@replaceVersion]]: cut at '=' first, then
\* each side at '@'; a local replacement path takes no version
ParseModuleReplace(mod) ==
    LET e == stringsCut(mod, "=")
        c == stringsCut(e.before, "@")
        r == stringsCut(e.after, "@")
        v == ParseVersion(mod, c.after)
    IN  IF c.found /\ (c.before = <<>> \/ c.after = <<>>)
        THEN [mod |-> NoModuleReplace, err |-> ErrorfQuoted("ErrInvalidDependencyFormat", mod)]
        ELSE IF e.found /\ (r.before = <<>> \/ (r.found /\ r.after = <<>>))
        THEN [mod |-> NoModuleReplace, err |-> ErrorfQuoted("ErrInvalidDependencyFormat", mod)]
        ELSE IF e.found /\ RelativePath(r.before) /\ r.found
        THEN [mod |-> NoModuleReplace, err |-> ErrorfQuoted("ErrInvalidDependencyFormat", mod)]
        ELSE IF ~v.err.nil THEN [mod |-> NoModuleReplace, err |-> v.err]
        ELSE IF ~CheckPath(c.before)
        THEN [mod |-> NoModuleReplace, err |-> ErrorfQuoted("ErrInvalidPath", mod)]
        ELSE [mod |-> [Path |-> c.before, Version |-> v.version, ReplacePath |-> r.before,
                       ReplaceVersion |-> r.after],
              err |-> NoError]

(***************************************************************************)
(* Inputs of one Build call.                                               *)
(***************************************************************************)
Versions == {latest, <<>>, <<"v", "0", ".", "1", ".", "0">>}

\* x/a@v2.1.0 gets /v2 appended; x/b/v2@v3.0.0 conflicts with its own suffix
Modules ==
    { [PackagePath |-> <<"x", "/", "a">>, Version |-> <<"v", "2", ".", "1", ".", "0">>],
      [PackagePath |-> <<"x", "/", "b", "/", "v", "2">>, Version |-> <<"v", "3", ".", "0", ".", "0">>] }

SeqsUpTo(S, n) == UNION {[1..k -> S] : k \in 0..n}

\* the option sets tried: no timeouts and no caches, or timeouts of 2 and 3
\* time units with an ephemeral cache and a copied environment
GoOptsTried ==
    { [GoGetTimeout |-> -1, GOBuildTimeout |-> 0, EphemeralCache |-> FALSE, CopyGoEnv |-> FALSE],
      [GoGetTimeout |-> 2, GOBuildTimeout |-> 3, EphemeralCache |-> TRUE, CopyGoEnv |-> TRUE] }

BuildOpts ==
    { [SkipCleanup |-> s, GoGetTimeout |-> g.GoGetTimeout, GOBuildTimeout |-> g.GOBuildTimeout,
       EphemeralCache |-> g.EphemeralCache, CopyGoEnv |-> g.CopyGoEnv] :
         s \in BOOLEAN, g \in GoOptsTried }

mainFile == <<"m", "a", "i", "n", ".", "g", "o">>

goModFile == <<"g", "o", ".", "m", "o", "d">>

k6File == <<"k", "6">>

VARIABLES
    k6Version, mods, opts,        \* arguments of Build and options of the builder
    ambient,                      \* error of the caller's context, "none" while live
    pc, idx, modPath,             \* position in Build / createMain / addMods
    workDir, files, cacheDirs,    \* the workspace directory, its files, ephemeral caches
    out,                          \* what the output writer has received
    buildErr,                     \* the error Build returns
    log, errAt, phases,           \* history: steps issued, log length at first error
    sup, call,                    \* position in runGo and its arguments
    ctxErr, deadlineLeft,         \* the call's context: its error, time to its deadline
    graceLeft, elapsed,           \* the time.After timer, ticks since the call began
    doneAt, runningAtCancel,      \* history: elapsed when ctx became done, process
                                  \* still running when runGo saw ctx.Done()
    proc, procStatus, killSent,   \* the started process
    waiter, cmdErr,               \* the goroutine around cmd.Wait and the value it sends
    supErr, branch,               \* runGo's result and the select branch it took
    waitCalls, killCalls, spawned \* counters of one runGo call

\* Two Build calls in one process (native.go:260-290, 403-410): the logger of
\* the standard library, os.Stderr and the temporary directories are shared
\* by the process, the fields of a builder by the calls made on it.
VARIABLES
    sameBuilder,                  \* both calls are made on one builder value
    stdlog, osStderr,             \* log.Writer() / log.Flags(), os.Stderr
    closedWriters,                \* the pipe writers that have been closed
    builder,                      \* fields logFlags, logOutput, logWriter, stderr
    bpc, bWorkDir,                \* position and workDir of each call
    tempDirs                      \* directories existing under os.TempDir()

processVars == <<sameBuilder, stdlog, osStderr, closedWriters, builder, bpc, bWorkDir,
                 tempDirs>>

\* A module specification given to ParseModule, and a path and a version
\* given to versionedModulePath.
VARIABLES
    mPath, mVersion, mAt,         \* the specification: path, or path@version
    mRevision,                    \* which ParseModule is called
    mStep,                        \* what has been called so far
    mVersioned,                   \* result of versionedModulePath
    mParsed, mReparsed,           \* results of ParseModule, first and second
    mReplace,                     \* the replacement of the specification, if any
    mReplaced,                    \* result of the ParseModule that knows replacements
    mEdit,                        \* argument of go mod edit -replace made by modReplace
    mFiles                        \* source files written for the specification and another

moduleVars == <<mPath, mVersion, mAt, mRevision, mStep, mVersioned, mParsed, mReparsed,
                mReplace, mReplaced, mEdit, mFiles>>

\* what the steps of a single Build leave as they found it: its arguments,
\* the process-wide state, whose handling is followed in SpecTwoBuilds, and
\* the module specification of SpecModule
\* The environment newGoEnv composes for the commands of a goEnv.
VARIABLES
    eOpts,                        \* GoOpts given to newGoEnv
    eEnviron,                     \* environment of the process, name to value
    eEnv,                         \* goEnv.env once newGoEnv has returned
    eCmd,                         \* the last command made: arguments and cmd.Env
    eDirs,                        \* the ephemeral cache directories on disk
    eClose,                       \* what goEnv.close did and returned
    eStep                         \* what has been called so far

envVars == <<eOpts, eEnviron, eEnv, eCmd, eDirs, eClose, eStep>>

inputVars == <<k6Version, mods, opts, processVars, moduleVars, envVars>>

buildVars == <<pc, idx, modPath, workDir, cacheDirs, out, buildErr, phases>>

supVars == <<sup, call, ctxErr, deadlineLeft, graceLeft, elapsed, doneAt,
             runningAtCancel, supErr, branch, killCalls, spawned>>

procVars == <<proc, procStatus, killSent, waiter, cmdErr, waitCalls>>

vars == <<inputVars, ambient, buildVars, errAt, files, log, supVars, procVars>>

NoCall == [op |-> "none", timeout |-> 0]

Builds == {1, 2}

TempNames == {"k6build1", "k6build2"}

NoFields ==
    [logFlags |-> "unset", logOutput |-> "unset", logWriter |-> "unset", stderr |-> "unset"]

\* the pipe writer made by call i
WriterOf(i) == IF i = 1 THEN "w1" ELSE "w2"

\* the process before any Build has touched it
InitProcess ==
    /\ stdlog = [out |-> "orig", flags |-> "orig"]
    /\ osStderr = "orig"
    /\ closedWriters = {}
    /\ builder = [b \in Builds |-> NoFields]
    /\ bpc = [i \in Builds |-> "logFlags"]
    /\ bWorkDir = [i \in Builds |-> "none"]
    /\ tempDirs = {}

NoParse == [mod |-> NoModule, err |-> NoError]

NoReplace == [given |-> FALSE, path |-> <<>>, at |-> FALSE, version |-> <<>>]

NoParseReplace == [mod |-> NoModuleReplace, err |-> NoError]

\* nothing given to ParseModule or versionedModulePath
InitNoModule ==
    /\ mPath = <<>> /\ mVersion = <<>> /\ mAt = FALSE
    /\ mRevision = "module.go:136"
    /\ mStep = "none"
    /\ mVersioned = [path |-> <<>>, err |-> NoError]
    /\ mParsed = NoParse /\ mReparsed = NoParse
    /\ mReplace = NoReplace /\ mReplaced = NoParseReplace /\ mEdit = <<>>
    /\ mFiles = <<>>

\* no goEnv whose environment is followed
InitNoEnv ==
    /\ eOpts = [CopyGoEnv |-> FALSE, Cgo |-> FALSE, GoCache |-> "", GoModCache |-> "",
                GoProxy |-> "", EphemeralCache |-> FALSE]
    /\ eEnviron = <<>> /\ eEnv = <<>> /\ eCmd = <<>>
    /\ eDirs = {} /\ eClose = <<>>
    /\ eStep = "none"

Init ==
    /\ sameBuilder = FALSE
    /\ InitProcess
    /\ InitNoModule
    /\ InitNoEnv
    /\ k6Version \in Versions
    /\ mods \in SeqsUpTo(Modules, MaxExts)
    /\ opts \in BuildOpts
    /\ ambient = "none"
    /\ pc = "MkdirTemp" /\ idx = 0 /\ modPath = <<>>
    /\ workDir = "none" /\ files = {} /\ cacheDirs = {}
    /\ out = "empty"
    /\ buildErr = NoError
    /\ log = <<>> /\ errAt = -1 /\ phases = <<"Created">>
    /\ sup = "idle" /\ call = NoCall
    /\ ctxErr = "none" /\ deadlineLeft = -1 /\ graceLeft = -1 /\ elapsed = 0
    /\ doneAt = -1 /\ runningAtCancel = FALSE
    /\ proc = "none" /\ procStatus = "none" /\ killSent = FALSE
    /\ waiter = "none" /\ cmdErr = NoError
    /\ supErr = NoError /\ branch = "none"
    /\ waitCalls = 0 /\ killCalls = 0 /\ spawned = 0

(***************************************************************************)
(* The process supervisor: goEnv.runGo (goenv.go:156-211).                 *)
(***************************************************************************)
ErrExecutingGoCommand == "ErrExecutingGoCommand"

\* what starting a call logs: the command line is the step with its argument
Issue(op, ext, arg) == Append(log, [op |-> op, ext |-> ext, arg |-> arg])

\* entry of runGo: exec.Command, then context.WithTimeout when timeout > 0.
\* A context derived from a cancelled parent is done from the start.
runGo(op, ext, arg, timeout) ==
    /\ sup = "idle"
    /\ sup' = "start"
    /\ call' = [op |-> op, timeout |-> timeout]
    /\ log' = Issue(op, ext, arg)
    /\ ctxErr' = ambient
    /\ deadlineLeft' = IF timeout > 0 /\ ambient = "none" THEN timeout ELSE -1
    /\ graceLeft' = -1 /\ elapsed' = 0
    /\ doneAt' = (IF ambient = "none" THEN -1 ELSE 0) /\ runningAtCancel' = FALSE
    /\ proc' = "none" /\ procStatus' = "none" /\ killSent' = FALSE
    /\ waiter' = "none" /\ cmdErr' = NoError
    /\ supErr' = NoError /\ branch' = "none"
    /\ waitCalls' = 0 /\ killCalls' = 0 /\ spawned' = 0

\* history: the length of the log when the first error was returned
MarkErr(failed) == errAt' = IF failed /\ errAt = -1 THEN Len(log') ELSE errAt

\* err := cmd.Start(); a start failure is reported immediately
cmdStart ==
    /\ sup = "start"
    /\ UNCHANGED <<inputVars, ambient, buildVars, files, log, call, ctxErr, graceLeft,
                   elapsed, doneAt, runningAtCancel, branch, killCalls, spawned,
                   procStatus, killSent, waiter, cmdErr, waitCalls>>
    /\ \E ok \in BOOLEAN :
          IF ok
          THEN /\ proc' = "running"
               /\ sup' = "spawn"
               /\ UNCHANGED <<supErr, deadlineLeft, errAt>>
          ELSE /\ supErr' = ErrorfSentinel(ErrExecutingGoCommand, ErrorNew("exec.Error"))
               /\ sup' = "returned"
               /\ deadlineLeft' = -1
               /\ MarkErr(TRUE)
               /\ UNCHANGED proc

\* cmdErrChan := make(chan error); go func() { ... }()
goWaiter ==
    /\ sup = "spawn"
    /\ sup' = "select"
    /\ waiter' = "spawned"
    /\ spawned' = spawned + 1
    /\ UNCHANGED <<inputVars, ambient, buildVars, errAt, files, log, call, ctxErr,
                   deadlineLeft, graceLeft, elapsed, doneAt, runningAtCancel, supErr,
                   branch, killCalls, proc, procStatus, killSent, cmdErr, waitCalls>>

\* the goroutine enters cmd.Wait()
waiterCallsWait ==
    /\ waiter = "spawned"
    /\ waiter' = "waiting"
    /\ waitCalls' = waitCalls + 1
    /\ UNCHANGED <<inputVars, ambient, buildVars, errAt, files, log, supVars, proc,
                   procStatus, killSent, cmdErr>>

\* cmd.Wait() returns once the process has exited: the process is reaped and
\* a non-nil result is wrapped; the goroutine then blocks on cmdErrChan <- cmdErr
waiterWaitReturns ==
    /\ waiter = "waiting"
    /\ proc = "exited"
    /\ proc' = "reaped"
    /\ cmdErr' = IF procStatus = "ok" THEN NoError
                 ELSE ErrorfSentinel(ErrExecutingGoCommand, ErrorNew("exec.ExitError"))
    /\ waiter' = "sending"
    /\ UNCHANGED <<inputVars, ambient, buildVars, errAt, files, log, supVars, procStatus,
                   killSent, waitCalls>>

\* outer select, case cmdErr := <-cmdErrChan: return cmdErr
selectCompletion ==
    /\ sup = "select"
    /\ waiter = "sending"
    /\ waiter' = "done"
    /\ supErr' = cmdErr
    /\ branch' = "natural"
    /\ sup' = "returned"
    /\ deadlineLeft' = -1
    /\ UNCHANGED <<inputVars, ambient, buildVars, files, log, call, ctxErr, graceLeft,
                   elapsed, doneAt, runningAtCancel, killCalls, spawned, proc,
                   procStatus, killSent, cmdErr, waitCalls>>
    /\ MarkErr(~cmdErr.nil)

\* faulty variant of selectDone: the process is killed as soon as the context
\* is done, as exec.CommandContext would
selectDone_killsNow ==
    /\ sup = "select"
    /\ ctxErr # "none"
    /\ sup' = "grace"
    /\ branch' = "cancel"
    /\ graceLeft' = GraceWindow
    /\ runningAtCancel' = (proc = "running")
    /\ killCalls' = killCalls + 1
    /\ killSent' = (proc = "running")
    /\ UNCHANGED <<inputVars, ambient, buildVars, errAt, files, log, call, ctxErr,
                   deadlineLeft, elapsed, doneAt, supErr, spawned, proc, procStatus,
                   waiter, cmdErr, waitCalls>>

\* outer select, case <-ctx.Done(): enter the inner select, arming time.After
selectDone ==
    /\ sup = "select"
    /\ ctxErr # "none"
    /\ sup' = "grace"
    /\ branch' = "cancel"
    /\ graceLeft' = GraceWindow
    /\ runningAtCancel' = (proc = "running")
    /\ UNCHANGED <<inputVars, ambient, buildVars, errAt, files, log, call, ctxErr,
                   deadlineLeft, elapsed, doneAt, supErr, killCalls, spawned, procVars>>

\* faulty variant of graceCompletion: the result of the process is returned
\* when it exits within the grace window
graceCompletion_returnsCmdErr ==
    /\ sup = "grace"
    /\ waiter = "sending"
    /\ waiter' = "done"
    /\ supErr' = cmdErr
    /\ sup' = "returned"
    /\ deadlineLeft' = -1
    /\ UNCHANGED <<inputVars, ambient, buildVars, files, log, call, ctxErr, graceLeft,
                   elapsed, doneAt, runningAtCancel, branch, killCalls, spawned, proc,
                   procStatus, killSent, cmdErr, waitCalls>>
    /\ MarkErr(~cmdErr.nil)

\* inner select, case <-cmdErrChan: then return ctx.Err()
graceCompletion ==
    /\ sup = "grace"
    /\ waiter = "sending"
    /\ waiter' = "done"
    /\ supErr' = ErrorNew(ctxErr)
    /\ sup' = "returned"
    /\ deadlineLeft' = -1
    /\ UNCHANGED <<inputVars, ambient, buildVars, files, log, call, ctxErr, graceLeft,
                   elapsed, doneAt, runningAtCancel, branch, killCalls, spawned, proc,
                   procStatus, killSent, cmdErr, waitCalls>>
    /\ MarkErr(TRUE)

\* faulty variant of graceTimeout: runGo itself calls cmd.Wait() after Kill
graceTimeout_waits ==
    /\ sup = "grace"
    /\ graceLeft = 0
    /\ killCalls' = killCalls + 1
    /\ killSent' = (proc = "running")
    /\ waitCalls' = waitCalls + 1
    /\ supErr' = ErrorNew(ctxErr)
    /\ sup' = "returned"
    /\ deadlineLeft' = -1
    /\ UNCHANGED <<inputVars, ambient, buildVars, files, log, call, ctxErr, graceLeft,
                   elapsed, doneAt, runningAtCancel, branch, spawned, proc, procStatus,
                   waiter, cmdErr>>
    /\ MarkErr(TRUE)

\* inner select, case <-time.After(15 * time.Second): cmd.Process.Kill(),
\* then return ctx.Err().  Kill on a process that is gone has no effect.
graceTimeout ==
    /\ sup = "grace"
    /\ graceLeft = 0
    /\ killCalls' = killCalls + 1
    /\ killSent' = (proc = "running")
    /\ supErr' = ErrorNew(ctxErr)
    /\ sup' = "returned"
    /\ deadlineLeft' = -1
    /\ UNCHANGED <<inputVars, ambient, buildVars, files, log, call, ctxErr, graceLeft,
                   elapsed, doneAt, runningAtCancel, branch, spawned, proc, procStatus,
                   waiter, cmdErr, waitCalls>>
    /\ MarkErr(TRUE)

(***************************************************************************)
(* The environment of a call: the process, the deadline, the caller, time. *)
(***************************************************************************)
\* what a command that succeeded leaves in the workspace
Produces(op) == IF op = "init" THEN {goModFile}
                ELSE IF op = "compile" THEN {k6File}
                ELSE {}

\* the process ends on its own, at any moment, successfully or not
procExits ==
    /\ proc = "running"
    /\ ~killSent
    /\ proc' = "exited"
    /\ \E st \in {"ok", "failed"} :
          /\ procStatus' = st
          /\ files' = IF st = "ok" /\ workDir = "exists"
                      THEN files \cup Produces(call.op) ELSE files
    /\ UNCHANGED <<inputVars, ambient, buildVars, errAt, log, supVars, killSent, waiter,
                   cmdErr, waitCalls>>

\* the process dies of the kill signal
procKilled ==
    /\ proc = "running"
    /\ killSent
    /\ proc' = "exited"
    /\ procStatus' = "killed"
    /\ UNCHANGED <<inputVars, ambient, buildVars, errAt, files, log, supVars, killSent,
                   waiter, cmdErr, waitCalls>>

InCall == sup \in {"start", "spawn", "select", "grace"}

\* the deadline of context.WithTimeout passes
deadlineFires ==
    /\ InCall
    /\ deadlineLeft = 0
    /\ ctxErr = "none"
    /\ ctxErr' = "context.DeadlineExceeded"
    /\ deadlineLeft' = -1
    /\ doneAt' = elapsed
    /\ UNCHANGED <<inputVars, ambient, buildVars, errAt, files, log, sup, call, graceLeft,
                   elapsed, runningAtCancel, supErr, branch, killCalls, spawned, procVars>>

\* faulty variant of cancelAmbient: a call that has a deadline of its own does
\* not hear of the cancellation
cancelAmbient_timeoutReplaces ==
    /\ ambient = "none"
    /\ pc # "done"
    /\ ambient' = "context.Canceled"
    /\ IF InCall /\ ctxErr = "none" /\ deadlineLeft < 0
       THEN ctxErr' = "context.Canceled" /\ deadlineLeft' = -1 /\ doneAt' = elapsed
       ELSE UNCHANGED <<ctxErr, deadlineLeft, doneAt>>
    /\ UNCHANGED <<inputVars, buildVars, errAt, files, log, sup, call, graceLeft, elapsed,
                   runningAtCancel, supErr, branch, killCalls, spawned, procVars>>

\* the caller cancels the context it gave to Build
cancelAmbient ==
    /\ ambient = "none"
    /\ pc # "done"
    /\ ambient' = "context.Canceled"
    /\ IF InCall /\ ctxErr = "none"
       THEN ctxErr' = "context.Canceled" /\ deadlineLeft' = -1 /\ doneAt' = elapsed
       ELSE UNCHANGED <<ctxErr, deadlineLeft, doneAt>>
    /\ UNCHANGED <<inputVars, buildVars, errAt, files, log, sup, call, graceLeft, elapsed,
                   runningAtCancel, supErr, branch, killCalls, spawned, procVars>>

\* a step that is ready runs before a whole time unit passes
Urgent ==
    \/ sup \in {"start", "spawn"}
    \/ sup = "select" /\ (ctxErr # "none" \/ waiter = "sending")
    \/ sup = "grace" /\ (graceLeft = 0 \/ waiter = "sending")
    \/ deadlineLeft = 0
    \/ waiter = "spawned"
    \/ waiter = "waiting" /\ proc = "exited"

\* one time unit passes; time is followed only while a timer is armed
tick ==
    /\ InCall
    /\ ~Urgent
    /\ deadlineLeft > 0 \/ graceLeft > 0
    /\ deadlineLeft' = IF deadlineLeft > 0 THEN deadlineLeft - 1 ELSE deadlineLeft
    /\ graceLeft' = IF graceLeft > 0 THEN graceLeft - 1 ELSE graceLeft
    /\ elapsed' = elapsed + 1
    /\ UNCHANGED <<inputVars, ambient, buildVars, errAt, files, log, sup, call, ctxErr,
                   doneAt, runningAtCancel, supErr, branch, killCalls, spawned, procVars>>

(***************************************************************************)
(* The manifest steps of goEnv (goenv.go:213-273): each runs one command   *)
(* through runGo and wraps its error with the sentinel of the step.        *)
(***************************************************************************)
modInit(err) == IF err.nil THEN NoError ELSE ErrorfSentinel("ErrSettingGoEnv", err)

\* faulty variant of modTidy: the error of runGo is returned as it is
modTidy_unwrapped(err) == err

modTidy(err) == IF err.nil THEN NoError ELSE ErrorfSentinel("ErrResolvingDependency", err)

\* faulty variant of modRequire: the error of runGo is returned as it is
modRequire_unwrapped(err) == err

modRequire(err) == IF err.nil THEN NoError ELSE ErrorfSentinel("ErrResolvingDependency", err)

modReplace(err) == IF err.nil THEN NoError ELSE ErrorfSentinel("ErrResolvingDependency", err)

compile(err) == IF err.nil THEN NoError ELSE ErrorfSentinel("ErrCompiling", err)

\* faulty variant of compileTimeout: compile runs under the get timeout
compileTimeout_get(o) == o.GoGetTimeout

\* the timeout compile gives to runGo
compileTimeout(o) == o.GOBuildTimeout

\* faulty variant of modRequireArg: the version is left out
modRequireArg_noVersion(modulePath, moduleVersion) == modulePath

\* the argument modRequire passes to `go mod edit -require`
modRequireArg(modulePath, moduleVersion) ==
    IF moduleVersion # <<>> THEN modulePath \o <<"@">> \o moduleVersion ELSE modulePath

\* the argument modReplace passes to `go mod edit -replace`
modReplaceArg(modulePath, moduleVersion, replacePath, replaceVersion) ==
    modRequireArg(modulePath, moduleVersion) \o <<"=">>
      \o (IF replaceVersion # <<>> THEN replacePath \o <<"@">> \o replaceVersion
          ELSE replacePath)

\* newGoEnv (goenv.go:66-140) under an environment env: the error it returns
\* and the ephemeral cache directories it has created by then
newGoEnv(o, env) ==
    IF ~env.hasGo THEN [err |-> ErrorNew("ErrNoGoToolchain"), dirs |-> {}]
    ELSE IF ~env.hasGit THEN [err |-> ErrorNew("ErrNoGit"), dirs |-> {}]
    ELSE IF o.EphemeralCache /\ ~env.mkModCache
    THEN [err |-> ErrorfWrap("creating mod cache", ErrorNew("os.PathError")), dirs |-> {}]
    ELSE IF o.EphemeralCache /\ ~env.mkGoCache
    THEN [err |-> ErrorfWrap("creating go cache", ErrorNew("os.PathError")),
          dirs |-> {"modcache"}]
    ELSE LET dirs == IF o.EphemeralCache THEN {"modcache", "cache"} ELSE {}
         IN  IF o.CopyGoEnv /\ ~env.getGoEnv
             THEN [err |-> ErrorfWrap("copying go environment", ErrorNew("exec.Error")),
                   dirs |-> dirs]
             ELSE [err |-> NoError, dirs |-> dirs]

Environments ==
    [hasGo : BOOLEAN, hasGit : BOOLEAN, mkModCache : BOOLEAN, mkGoCache : BOOLEAN,
     getGoEnv : BOOLEAN]

(***************************************************************************)
(* nativeBuilder.Build (native.go:260-349) with goEnv.createMain and       *)
(* goEnv.addMods (native.go:351-401).                                      *)
(***************************************************************************)
\* faulty variant of Fail: an error return that skips the deferred cleanup
Fail_noCleanup(err) ==
    /\ buildErr' = err
    /\ pc' = "done"
    /\ MarkErr(TRUE)
    /\ phases' = Append(phases, "Failed")

\* return err: Build leaves through its deferred functions
Fail(err) ==
    /\ buildErr' = err
    /\ pc' = "deferred"
    /\ MarkErr(TRUE)
    /\ phases' = Append(phases, "Failed")

\* the finished call is forgotten
ResetCall ==
    /\ sup' = "idle" /\ call' = NoCall
    /\ ctxErr' = "none" /\ deadlineLeft' = -1 /\ graceLeft' = -1 /\ elapsed' = 0
    /\ doneAt' = -1 /\ runningAtCancel' = FALSE
    /\ proc' = "none" /\ procStatus' = "none" /\ killSent' = FALSE
    /\ waiter' = "none" /\ cmdErr' = NoError
    /\ supErr' = NoError /\ branch' = "none"
    /\ waitCalls' = 0 /\ killCalls' = 0 /\ spawned' = 0

\* the failed call stays on record, its timers stopped
KeepCall ==
    /\ sup' = "idle"
    /\ deadlineLeft' = -1 /\ graceLeft' = -1 /\ elapsed' = 0 /\ doneAt' = -1
    /\ UNCHANGED <<call, ctxErr, runningAtCancel, supErr, branch, killCalls, spawned,
                   procVars>>

\* where the build goes once i extensions have been added
AfterExt(i) == IF i >= Len(mods) THEN "compile" ELSE "addMods"

\* workDir, err := os.MkdirTemp(...); the cleanup is deferred only on success
BuildMkdirTemp ==
    /\ pc = "MkdirTemp"
    /\ UNCHANGED <<inputVars, ambient, idx, modPath, cacheDirs, out, files, log, supVars,
                   procVars>>
    /\ \E ok \in BOOLEAN :
          IF ok
          THEN /\ workDir' = "exists"
               /\ pc' = "newGoEnv"
               /\ phases' = Append(phases, "WorkspaceReady")
               /\ UNCHANGED <<buildErr, errAt>>
          ELSE /\ buildErr' = ErrorfWrap("creating working directory", ErrorNew("os.PathError"))
               /\ pc' = "done"
               /\ MarkErr(TRUE)
               /\ phases' = Append(phases, "Failed")
               /\ UNCHANGED workDir

\* buildEnv, err := newGoEnv(workDir, b.opts.GoOpts, platform, ...)
BuildNewGoEnv ==
    /\ pc = "newGoEnv"
    /\ UNCHANGED <<inputVars, ambient, idx, modPath, workDir, out, files, log, supVars,
                   procVars>>
    /\ \E env \in Environments :
          LET r == newGoEnv(opts, env)
          IN  /\ cacheDirs' = r.dirs
              /\ IF r.err.nil
                 THEN pc' = "modInit" /\ UNCHANGED <<buildErr, errAt, phases>>
                 ELSE Fail(r.err)

\* err = buildEnv.modInit(ctx)
BuildModInit ==
    \/ /\ pc = "modInit"
       /\ runGo("init", 0, <<>>, InitTimeout)
       /\ UNCHANGED <<inputVars, ambient, buildVars, errAt, files>>
    \/ /\ pc = "modInit"
       /\ sup = "returned"
       /\ UNCHANGED <<inputVars, ambient, idx, modPath, workDir, cacheDirs, out, files, log>>
       /\ LET err == modInit(supErr)
          IN  IF err.nil
              THEN /\ ResetCall
                   /\ pc' = "createMain"
                   /\ phases' = Append(phases, "ModuleInitialized")
                   /\ UNCHANGED <<buildErr, errAt>>
              ELSE KeepCall /\ Fail(err)

\* the name of the blank-import file of a module path
modImportFile(path) == ReplaceAll(path, "/", "_") \o <<".", "g", "o">>

\* faulty variant of WriteSource: the generated file is named from, and imports,
\* the module path as given, not the version-qualified one
WriteSource_unversioned(ext, path, version, next) ==
    LET vp == versionedModulePath(path, version)
        fileOf(q) == IF ext = 0 THEN mainFile ELSE modImportFile(q)
    IN  IF ~vp.err.nil
        THEN /\ UNCHANGED <<log, files, modPath, idx>>
             /\ Fail(vp.err)
        ELSE \E ok \in BOOLEAN :
                /\ log' = Append(log, [op |-> "write", ext |-> ext, arg |-> fileOf(path),
                                     imports |-> path])
                /\ IF ok
                   THEN /\ files' = files \cup {fileOf(path)}
                        /\ modPath' = vp.path
                        /\ pc' = next
                        /\ UNCHANGED <<buildErr, errAt, phases, idx>>
                   ELSE /\ UNCHANGED <<files, modPath, idx>>
                        /\ Fail(ErrorfWrap("writing file", ErrorNew("os.PathError")))

\* versionedModulePath, then os.WriteFile of a generated source file: main.go
\* for the base module (ext = 0), the blank-import file for an extension; the
\* entry records the file's name (arg) and the path its template imports
WriteSource(ext, path, version, next) ==
    LET vp == versionedModulePath(path, version)
        fileOf(q) == IF ext = 0 THEN mainFile ELSE modImportFile(q)
    IN  IF ~vp.err.nil
        THEN /\ UNCHANGED <<log, files, modPath, idx>>
             /\ Fail(vp.err)
        ELSE \E ok \in BOOLEAN :
                /\ log' = Append(log, [op |-> "write", ext |-> ext, arg |-> fileOf(vp.path),
                                     imports |-> vp.path])
                /\ IF ok
                   THEN /\ files' = files \cup {fileOf(vp.path)}
                        /\ modPath' = vp.path
                        /\ pc' = next
                        /\ UNCHANGED <<buildErr, errAt, phases, idx>>
                   ELSE /\ UNCHANGED <<files, modPath, idx>>
                        /\ Fail(ErrorfWrap("writing file", ErrorNew("os.PathError")))

\* createMain: the entry point is written, then the base module is required
createMain ==
    /\ pc = "createMain"
    /\ UNCHANGED <<inputVars, ambient, workDir, cacheDirs, out, supVars, procVars>>
    /\ WriteSource(0, defaultK6ModulePath, k6Version, "createMain_modRequire")

\* faulty variant of createMainRequire: createMain returns after the
\* requirement, without the tidy
createMainRequire_noTidy ==
    \/ /\ pc = "createMain_modRequire"
       /\ runGo("require", 0, modRequireArg(modPath, k6Version), opts.GoGetTimeout)
       /\ UNCHANGED <<inputVars, ambient, buildVars, errAt, files>>
    \/ /\ pc = "createMain_modRequire"
       /\ sup = "returned"
       /\ UNCHANGED <<inputVars, ambient, idx, modPath, workDir, cacheDirs, out, files, log>>
       /\ LET err == modRequire(supErr)
          IN  IF err.nil
              THEN /\ ResetCall
                   /\ pc' = AfterExt(0)
                   /\ UNCHANGED <<buildErr, errAt, phases>>
              ELSE KeepCall /\ Fail(err)

\* err = e.modRequire(ctx, k6ModulePath, k6Version)
createMainRequire ==
    \/ /\ pc = "createMain_modRequire"
       /\ runGo("require", 0, modRequireArg(modPath, k6Version), opts.GoGetTimeout)
       /\ UNCHANGED <<inputVars, ambient, buildVars, errAt, files>>
    \/ /\ pc = "createMain_modRequire"
       /\ sup = "returned"
       /\ UNCHANGED <<inputVars, ambient, idx, modPath, workDir, cacheDirs, out, files, log>>
       /\ LET err == modRequire(supErr)
          IN  IF err.nil
              THEN /\ ResetCall
                   /\ pc' = "createMain_modTidy"
                   /\ UNCHANGED <<buildErr, errAt, phases>>
              ELSE KeepCall /\ Fail(err)

\* faulty variant of createMainTidy: a tidy that failed is run once more
createMainTidy_retry ==
    \/ /\ pc = "createMain_modTidy"
       /\ runGo("tidy", 0, <<>>, opts.GoGetTimeout)
       /\ UNCHANGED <<inputVars, ambient, buildVars, errAt, files>>
    \/ /\ pc = "createMain_modTidy"
       /\ sup = "returned"
       /\ UNCHANGED <<inputVars, ambient, idx, modPath, workDir, cacheDirs, out, files, log>>
       /\ LET err == modTidy(supErr)
          IN  IF err.nil
              THEN /\ ResetCall
                   /\ pc' = AfterExt(0)
                   /\ phases' = Append(phases, "BaseAdded")
                   /\ UNCHANGED <<buildErr, errAt>>
              ELSE IF Len(log) < 5
              THEN ResetCall /\ UNCHANGED <<pc, phases, buildErr, errAt>>
              ELSE KeepCall /\ Fail(err)

\* return e.modTidy(ctx)
createMainTidy ==
    \/ /\ pc = "createMain_modTidy"
       /\ runGo("tidy", 0, <<>>, opts.GoGetTimeout)
       /\ UNCHANGED <<inputVars, ambient, buildVars, errAt, files>>
    \/ /\ pc = "createMain_modTidy"
       /\ sup = "returned"
       /\ UNCHANGED <<inputVars, ambient, idx, modPath, workDir, cacheDirs, out, files, log>>
       /\ LET err == modTidy(supErr)
          IN  IF err.nil
              THEN /\ ResetCall
                   /\ pc' = AfterExt(0)
                   /\ phases' = Append(phases, "BaseAdded")
                   /\ UNCHANGED <<buildErr, errAt>>
              ELSE KeepCall /\ Fail(err)

\* addMods, head of the loop: the blank-import file of the next module
addMods ==
    /\ pc = "addMods"
    /\ UNCHANGED <<inputVars, ambient, workDir, cacheDirs, out, supVars, procVars>>
    /\ WriteSource(idx + 1, mods[idx + 1].PackagePath, mods[idx + 1].Version,
                   "addMods_modRequire")

\* faulty variant of addModsRequire: the loop goes on to the next module
\* without the tidy
addModsRequire_skipTidy ==
    \/ /\ pc = "addMods_modRequire"
       /\ runGo("require", idx + 1, modRequireArg(modPath, mods[idx + 1].Version),
                opts.GoGetTimeout)
       /\ UNCHANGED <<inputVars, ambient, buildVars, errAt, files>>
    \/ /\ pc = "addMods_modRequire"
       /\ sup = "returned"
       /\ UNCHANGED <<inputVars, ambient, modPath, workDir, cacheDirs, out, files, log>>
       /\ LET err == modRequire(supErr)
          IN  IF err.nil
              THEN /\ ResetCall
                   /\ idx' = idx + 1
                   /\ pc' = AfterExt(idx + 1)
                   /\ phases' = Append(phases, "ExtensionAdded")
                   /\ UNCHANGED <<buildErr, errAt>>
              ELSE KeepCall /\ Fail(err) /\ UNCHANGED idx

\* err = e.modRequire(ctx, modPath, m.Version)
addModsRequire ==
    \/ /\ pc = "addMods_modRequire"
       /\ runGo("require", idx + 1, modRequireArg(modPath, mods[idx + 1].Version),
                opts.GoGetTimeout)
       /\ UNCHANGED <<inputVars, ambient, buildVars, errAt, files>>
    \/ /\ pc = "addMods_modRequire"
       /\ sup = "returned"
       /\ UNCHANGED <<inputVars, ambient, idx, modPath, workDir, cacheDirs, out, files, log>>
       /\ LET err == modRequire(supErr)
          IN  IF err.nil
              THEN /\ ResetCall
                   /\ pc' = "addMods_modTidy"
                   /\ UNCHANGED <<buildErr, errAt, phases>>
              ELSE KeepCall /\ Fail(err)

\* faulty variant of addModsTidy: the error of the tidy is dropped and the
\* loop goes on
addModsTidy_ignoreErr ==
    \/ /\ pc = "addMods_modTidy"
       /\ runGo("tidy", idx + 1, <<>>, opts.GoGetTimeout)
       /\ UNCHANGED <<inputVars, ambient, buildVars, errAt, files>>
    \/ /\ pc = "addMods_modTidy"
       /\ sup = "returned"
       /\ UNCHANGED <<inputVars, ambient, modPath, workDir, cacheDirs, out, files, log>>
       /\ ResetCall
       /\ idx' = idx + 1
       /\ pc' = AfterExt(idx + 1)
       /\ phases' = Append(phases, "ExtensionAdded")
       /\ UNCHANGED <<buildErr, errAt>>

\* err = e.modTidy(ctx), end of one turn of the loop
addModsTidy ==
    \/ /\ pc = "addMods_modTidy"
       /\ runGo("tidy", idx + 1, <<>>, opts.GoGetTimeout)
       /\ UNCHANGED <<inputVars, ambient, buildVars, errAt, files>>
    \/ /\ pc = "addMods_modTidy"
       /\ sup = "returned"
       /\ UNCHANGED <<inputVars, ambient, modPath, workDir, cacheDirs, out, files, log>>
       /\ LET err == modTidy(supErr)
          IN  IF err.nil
              THEN /\ ResetCall
                   /\ idx' = idx + 1
                   /\ pc' = AfterExt(idx + 1)
                   /\ phases' = Append(phases, "ExtensionAdded")
                   /\ UNCHANGED <<buildErr, errAt>>
              ELSE KeepCall /\ Fail(err) /\ UNCHANGED idx

\* faulty variant of BuildCompile: the error of compile is dropped and the
\* build goes on to open the binary
BuildCompile_ignoreErr ==
    \/ /\ pc = "compile"
       /\ runGo("compile", 0, k6File, compileTimeout(opts))
       /\ UNCHANGED <<inputVars, ambient, buildVars, errAt, files>>
    \/ /\ pc = "compile"
       /\ sup = "returned"
       /\ UNCHANGED <<inputVars, ambient, idx, modPath, workDir, cacheDirs, out, files, log>>
       /\ ResetCall
       /\ pc' = "Open"
       /\ phases' = IF compile(supErr).nil THEN Append(phases, "Compiled") ELSE phases
       /\ UNCHANGED <<buildErr, errAt>>

\* err = buildEnv.compile(ctx, k6Path)
BuildCompile ==
    \/ /\ pc = "compile"
       /\ runGo("compile", 0, k6File, compileTimeout(opts))
       /\ UNCHANGED <<inputVars, ambient, buildVars, errAt, files>>
    \/ /\ pc = "compile"
       /\ sup = "returned"
       /\ UNCHANGED <<inputVars, ambient, idx, modPath, workDir, cacheDirs, out, files, log>>
       /\ LET err == compile(supErr)
          IN  IF err.nil
              THEN /\ ResetCall
                   /\ pc' = "Open"
                   /\ phases' = Append(phases, "Compiled")
                   /\ UNCHANGED <<buildErr, errAt>>
              ELSE KeepCall /\ Fail(err)

\* k6File, err := os.Open(k6Path)
BuildOpen ==
    /\ pc = "Open"
    /\ UNCHANGED <<inputVars, ambient, idx, modPath, workDir, cacheDirs, out, files, log,
                   supVars, procVars>>
    /\ \E ok \in BOOLEAN :
          IF ok /\ k6File \in files
          THEN pc' = "Copy" /\ UNCHANGED <<buildErr, errAt, phases>>
          ELSE Fail(ErrorNew("os.PathError"))

\* _, err = io.Copy(out, k6File): a failed copy may have written a part
BuildCopy ==
    /\ pc = "Copy"
    /\ UNCHANGED <<inputVars, ambient, idx, modPath, workDir, cacheDirs, files, log,
                   supVars, procVars>>
    /\ \E written \in {"empty", "partial", "complete"} :
          /\ out' = written
          /\ IF written = "complete"
             THEN /\ pc' = "deferred"
                  /\ phases' = Append(phases, "Done")
                  /\ UNCHANGED <<buildErr, errAt>>
             ELSE Fail(ErrorfWrap("copying binary", ErrorNew("io.Error")))

\* the deferred cleanup: os.RemoveAll(workDir) unless SkipCleanup
BuildCleanup ==
    /\ pc = "deferred"
    /\ pc' = "done"
    /\ IF opts.SkipCleanup
       THEN UNCHANGED <<workDir, files>>
       ELSE workDir' = "removed" /\ files' = {}
    /\ UNCHANGED <<inputVars, ambient, idx, modPath, cacheDirs, out, buildErr, errAt,
                   phases, log, supVars, procVars>>

Next ==
    \/ BuildMkdirTemp \/ BuildNewGoEnv \/ BuildModInit
    \/ createMain \/ createMainRequire \/ createMainTidy
    \/ addMods \/ addModsRequire \/ addModsTidy
    \/ BuildCompile \/ BuildOpen \/ BuildCopy \/ BuildCleanup
    \/ cmdStart \/ goWaiter \/ waiterCallsWait \/ waiterWaitReturns
    \/ selectCompletion \/ selectDone \/ graceCompletion \/ graceTimeout
    \/ procExits \/ procKilled \/ deadlineFires \/ cancelAmbient \/ tick

Spec == Init /\ [][Next]_vars

(***************************************************************************)
(* Two concurrent Build calls: the log redirection at the head of Build    *)
(* (native.go:266-274), the workspace (276-288) and nativeBuilder.close    *)
(* (403-410), one statement per step, interleaved in every order.          *)
(***************************************************************************)
coreVars == <<k6Version, mods, opts, ambient, buildVars, errAt, files, log, supVars, procVars>>

singleBuildVars == <<coreVars, moduleVars, envVars>>

\* the builder value call i is made on
BuilderOf(i) == IF sameBuilder THEN 1 ELSE i

SetField(i, f, v) == builder' = [builder EXCEPT ![BuilderOf(i)][f] = v]

Goto(i, from, to) == bpc[i] = from /\ bpc' = [bpc EXCEPT ![i] = to]

\* b.logFlags = log.Flags()
BuildLogFlags(i) ==
    /\ Goto(i, "logFlags", "logOutput")
    /\ SetField(i, "logFlags", stdlog.flags)
    /\ UNCHANGED <<singleBuildVars, sameBuilder, stdlog, osStderr, closedWriters, bWorkDir,
                   tempDirs>>

\* b.logOutput = log.Writer()
BuildLogOutput(i) ==
    /\ Goto(i, "logOutput", "logWriter")
    /\ SetField(i, "logOutput", stdlog.out)
    /\ UNCHANGED <<singleBuildVars, sameBuilder, stdlog, osStderr, closedWriters, bWorkDir,
                   tempDirs>>

\* b.logWriter = logrus.StandardLogger().WriterLevel(...): a new pipe, named
\* after the call that made it
BuildLogWriter(i) ==
    /\ Goto(i, "logWriter", "stderr")
    /\ SetField(i, "logWriter", WriterOf(i))
    /\ UNCHANGED <<singleBuildVars, sameBuilder, stdlog, osStderr, closedWriters, bWorkDir,
                   tempDirs>>

\* b.stderr = os.Stderr
BuildStderr(i) ==
    /\ Goto(i, "stderr", "SetOutput")
    /\ SetField(i, "stderr", osStderr)
    /\ UNCHANGED <<singleBuildVars, sameBuilder, stdlog, osStderr, closedWriters, bWorkDir,
                   tempDirs>>

\* log.SetOutput(b.logWriter)
BuildSetOutput(i) ==
    /\ Goto(i, "SetOutput", "SetFlags")
    /\ stdlog' = [stdlog EXCEPT !.out = builder[BuilderOf(i)].logWriter]
    /\ UNCHANGED <<singleBuildVars, sameBuilder, osStderr, closedWriters, builder, bWorkDir,
                   tempDirs>>

\* log.SetFlags(0)
BuildSetFlags(i) ==
    /\ Goto(i, "SetFlags", "MkdirTemp")
    /\ stdlog' = [stdlog EXCEPT !.flags = "0"]
    /\ UNCHANGED <<singleBuildVars, sameBuilder, osStderr, closedWriters, builder, bWorkDir,
                   tempDirs>>

\* workDir, err := os.MkdirTemp(...): a name no existing directory has; on an
\* error Build returns before its defers are set up
BuildWorkDir(i) ==
    /\ bpc[i] = "MkdirTemp"
    /\ \/ \E d \in TempNames \ tempDirs :
             /\ tempDirs' = tempDirs \cup {d}
             /\ bWorkDir' = [bWorkDir EXCEPT ![i] = d]
             /\ bpc' = [bpc EXCEPT ![i] = "steps"]
       \/ /\ bpc' = [bpc EXCEPT ![i] = "done"]
          /\ UNCHANGED <<tempDirs, bWorkDir>>
    /\ UNCHANGED <<singleBuildVars, sameBuilder, stdlog, osStderr, closedWriters, builder>>

\* the steps of the build, all inside workDir
BuildSteps(i) ==
    /\ Goto(i, "steps", "close")
    /\ UNCHANGED <<singleBuildVars, sameBuilder, stdlog, osStderr, closedWriters, builder,
                   bWorkDir, tempDirs>>

\* deferred b.close(): _ = b.logWriter.Close()
closeLogWriter(i) ==
    /\ Goto(i, "close", "closeFlags")
    /\ closedWriters' = closedWriters \cup {builder[BuilderOf(i)].logWriter}
    /\ UNCHANGED <<singleBuildVars, sameBuilder, stdlog, osStderr, builder, bWorkDir, tempDirs>>

\* log.SetFlags(b.logFlags)
closeSetFlags(i) ==
    /\ Goto(i, "closeFlags", "closeOutput")
    /\ stdlog' = [stdlog EXCEPT !.flags = builder[BuilderOf(i)].logFlags]
    /\ UNCHANGED <<singleBuildVars, sameBuilder, osStderr, closedWriters, builder, bWorkDir,
                   tempDirs>>

\* log.SetOutput(b.logOutput)
closeSetOutput(i) ==
    /\ Goto(i, "closeOutput", "closeStderr")
    /\ stdlog' = [stdlog EXCEPT !.out = builder[BuilderOf(i)].logOutput]
    /\ UNCHANGED <<singleBuildVars, sameBuilder, osStderr, closedWriters, builder, bWorkDir,
                   tempDirs>>

\* os.Stderr = b.stderr
closeStderr(i) ==
    /\ Goto(i, "closeStderr", "RemoveAll")
    /\ osStderr' = builder[BuilderOf(i)].stderr
    /\ UNCHANGED <<singleBuildVars, sameBuilder, stdlog, closedWriters, builder, bWorkDir, tempDirs>>

\* the deferred cleanup of the workspace: _ = os.RemoveAll(workDir)
BuildRemoveAll(i) ==
    /\ Goto(i, "RemoveAll", "done")
    /\ tempDirs' = tempDirs \ {bWorkDir[i]}
    /\ UNCHANGED <<singleBuildVars, sameBuilder, stdlog, osStderr, closedWriters, builder, bWorkDir>>

\* a single Build that has not begun
InitNoBuild ==
    /\ k6Version = latest /\ mods = <<>>
    /\ opts = CHOOSE o \in BuildOpts : ~o.SkipCleanup /\ ~o.EphemeralCache
    /\ ambient = "none"
    /\ pc = "MkdirTemp" /\ idx = 0 /\ modPath = <<>>
    /\ workDir = "none" /\ files = {} /\ cacheDirs = {}
    /\ out = "empty"
    /\ buildErr = NoError
    /\ log = <<>> /\ errAt = -1 /\ phases = <<"Created">>
    /\ sup = "idle" /\ call = NoCall
    /\ ctxErr = "none" /\ deadlineLeft = -1 /\ graceLeft = -1 /\ elapsed = 0
    /\ doneAt = -1 /\ runningAtCancel = FALSE
    /\ proc = "none" /\ procStatus = "none" /\ killSent = FALSE
    /\ waiter = "none" /\ cmdErr = NoError
    /\ supErr = NoError /\ branch = "none"
    /\ waitCalls = 0 /\ killCalls = 0 /\ spawned = 0

InitTwoBuilds ==
    /\ sameBuilder \in BOOLEAN
    /\ InitProcess
    /\ InitNoModule
    /\ InitNoEnv
    /\ InitNoBuild

NextTwoBuilds ==
    \E i \in Builds :
        \/ BuildLogFlags(i) \/ BuildLogOutput(i) \/ BuildLogWriter(i) \/ BuildStderr(i)
        \/ BuildSetOutput(i) \/ BuildSetFlags(i) \/ BuildWorkDir(i) \/ BuildSteps(i)
        \/ closeLogWriter(i) \/ closeSetFlags(i) \/ closeSetOutput(i) \/ closeStderr(i)
        \/ BuildRemoveAll(i)

SpecTwoBuilds == InitTwoBuilds /\ [][NextTwoBuilds]_vars

(***************************************************************************)
(* ParseModule and versionedModulePath applied to specifications drawn     *)
(* from ModulePaths and ModuleVersions.                                    *)
(***************************************************************************)
ModulePaths ==
    { <<"x", ".", "y", "/", "a">>,
      <<"x", ".", "y", "/", "a", "/", "v", "2">>,
      <<"x", ".", "y", "/", "a", "/", "v", "3">>,
      <<"x", ".", "y", "/", "a", "/", "v", "1">>,
      <<"x", ".", "y", "/", "a", "v", "2">>,
      <<"x", ".", "y", "/", "v", "1", "0">>,
      <<"x", "y", "/", "a">>,
      <<>> }

ModuleVersions ==
    { latest,
      <<"a", "b", "c", "1", "2", "3">>,
      <<"v", "0", ".", "1", ".", "0">>,
      <<"v", "1", ".", "2", ".", "3">>,
      <<"v", "1", ".", "2", ".", "3", "+", "b", "1">>,
      <<"v", "2">>,
      <<"v", "2", ".", "1">>,
      <<"v", "2", ".", "0", ".", "0">>,
      <<"v", "3", ".", "0", ".", "0", "-", "r", "c", "1">>,
      <<"v", "1", "0", ".", "0", ".", "0">>,
      <<"2", ".", "0", ".", "0">>,
      <<"v", "0", "2", ".", "0", ".", "0">>,
      <<"v", "2", "-", "r", "c", "1">>,
      <<>> }

\* replacements of a specification: another module, or a local directory
ReplacePaths ==
    { <<"x", ".", "y", "/", "b">>,
      <<".", "/", "b">>,
      <<".", ".", "/", "b">>,
      <<>> }

ReplaceVersions == { <<"v", "0", ".", "1", ".", "0">>, <<>> }

\* the string of a specification
ModuleString(path, version, at) == IF at THEN path \o <<"@">> \o version ELSE path

\* the dependency as it is written: path[@version][=replacePath[@replaceVersion]]
DependencyString ==
    ModuleString(mPath, mVersion, mAt)
      \o (IF mReplace.given
          THEN <<"=">> \o ModuleString(mReplace.path, mReplace.version, mReplace.at)
          ELSE <<>>)

InitModule ==
    /\ mPath \in ModulePaths
    /\ mAt \in BOOLEAN
    /\ mVersion \in (IF mAt THEN ModuleVersions ELSE {<<>>})
    /\ mRevision \in {"module.go:34", "module.go:136"}
    /\ mStep = "given"
    /\ mVersioned = [path |-> <<>>, err |-> NoError]
    /\ mParsed = NoParse /\ mReparsed = NoParse
    /\ mReplace \in {NoReplace}
          \cup {[given |-> TRUE, path |-> p, at |-> FALSE, version |-> <<>>] : p \in ReplacePaths}
          \cup {[given |-> TRUE, path |-> p, at |-> TRUE, version |-> v] :
                  p \in ReplacePaths, v \in ReplaceVersions}
    /\ mReplaced = NoParseReplace /\ mEdit = <<>>
    /\ mFiles = <<>>
    /\ InitNoEnv
    /\ sameBuilder = FALSE
    /\ InitProcess
    /\ InitNoBuild

Parse(mod) ==
    IF mRevision = "module.go:34" THEN ParseModuleVersionedPath(mod) ELSE ParseModule(mod)

\* versionedModulePath(m.PackagePath, m.Version)
callVersionedModulePath ==
    /\ mStep = "given"
    /\ mStep' = "versioned"
    /\ mVersioned' = versionedModulePath(mPath, mVersion)
    /\ UNCHANGED <<coreVars, processVars, envVars, mPath, mVersion, mAt, mRevision, mParsed, mReparsed,
                   mReplace, mReplaced, mEdit, mFiles>>

\* ParseModule(mod)
callParseModule ==
    /\ mStep = "given"
    /\ mStep' = "parsed"
    /\ mParsed' = Parse(DependencyString)
    /\ UNCHANGED <<coreVars, processVars, envVars, mPath, mVersion, mAt, mRevision, mVersioned,
                   mReparsed, mReplace, mReplaced, mEdit, mFiles>>

\* ParseModule(m.PackagePath + "@" + m.Version) of a module it returned
callParseModuleAgain ==
    /\ mStep = "parsed"
    /\ mParsed.err.nil
    /\ mStep' = "reparsed"
    /\ mReparsed' = Parse(ModuleString(mParsed.mod.PackagePath, mParsed.mod.Version, TRUE))
    /\ UNCHANGED <<coreVars, processVars, envVars, mPath, mVersion, mAt, mRevision, mVersioned,
                   mParsed, mReplace, mReplaced, mEdit, mFiles>>

\* ParseModule(mod) of the revision that knows replacements
callParseModuleReplace ==
    /\ mStep = "given"
    /\ mStep' = "replaced"
    /\ mReplaced' = ParseModuleReplace(DependencyString)
    /\ UNCHANGED <<coreVars, processVars, envVars, mPath, mVersion, mAt, mRevision, mVersioned,
                   mParsed, mReparsed, mReplace, mEdit, mFiles>>

\* modReplace(ctx, modulePath, moduleVersion, replacePath, replaceVersion) up
\* to its command, for an import path and a replacement that is not empty
callModReplace ==
    /\ mStep = "given"
    /\ mReplace.given /\ mReplace.path # <<>>
    /\ CheckPath(mPath)
    /\ mStep' = "edited"
    /\ mEdit' = modReplaceArg(mPath, mVersion, mReplace.path, mReplace.version)
    /\ UNCHANGED <<coreVars, processVars, envVars, mPath, mVersion, mAt, mRevision, mVersioned,
                   mParsed, mReparsed, mReplace, mReplaced, mFiles>>

\* the modules whose blank-import files are written next to that of the
\* specification
OtherModules ==
    { [PackagePath |-> <<"x", ".", "y", "/", "a", "_", "v", "2">>,
       Version |-> <<"v", "1", ".", "2", ".", "3">>],
      [PackagePath |-> <<"x", ".", "y", "/", "b">>,
       Version |-> <<"v", "0", ".", "1", ".", "0">>] }

\* the source files of createMain and of addMods for two modules, up to the
\* os.WriteFile of each: main.go, then for each module versionedModulePath and
\* the blank-import file named from its result; the loop returns at the first
\* error
sourceFiles(ms) ==
    LET vp(j) == versionedModulePath(ms[j].PackagePath, ms[j].Version)
        n == Max({k \in 0..Len(ms) : \A j \in 1..k : vp(j).err.nil})
    IN  <<[imports |-> defaultK6ModulePath, file |-> mainFile]>>
          \o [j \in 1..n |-> [imports |-> vp(j).path, file |-> modImportFile(vp(j).path)]]

\* createMain and the writes of addMods for the module of the specification
\* and another one, both with import paths module.CheckPath accepts
callAddMods ==
    /\ mStep = "given"
    /\ ~mReplace.given
    /\ CheckPath(mPath)
    /\ mVersion # <<>>
    /\ mStep' = "written"
    /\ \E other \in OtherModules :
          /\ CheckPath(other.PackagePath)
          /\ mFiles' = sourceFiles(<<[PackagePath |-> mPath, Version |-> mVersion], other>>)
    /\ UNCHANGED <<coreVars, processVars, envVars, mPath, mVersion, mAt, mRevision, mVersioned,
                   mParsed, mReparsed, mReplace, mReplaced, mEdit>>

NextModule ==
    \/ callVersionedModulePath
    \/ callParseModule
    \/ callParseModuleAgain
    \/ callParseModuleReplace
    \/ callModReplace
    \/ callAddMods

SpecModule == InitModule /\ [][NextModule]_vars

(***************************************************************************)
(* The environment of the commands: newGoEnv (goenv.go:100-131) composes   *)
(* it from GoOpts, the platform and the process, runGo (goenv.go:157-159)  *)
(* gives it to every command.                                              *)
(***************************************************************************)
\* the variables go env reports
GoVars ==
    {"GOOS", "GOARCH", "CGO_ENABLED", "GOCACHE", "GOMODCACHE", "GOPROXY", "GONOPROXY",
     "GOPRIVATE", "GONOSUMDB", "GOFLAGS"}

platform == [OS |-> "linux", Arch |-> "amd64"]

\* map a overlaid with map b: the values of b win
Overlay(a, b) ==
    [n \in DOMAIN a \cup DOMAIN b |-> IF n \in DOMAIN b THEN b[n] ELSE a[n]]

\* os.Getenv(name): empty for a variable that is not set
osGetenv(environ, name) == IF name \in DOMAIN environ THEN environ[name] ELSE ""

\* getGoEnv: the output of go env -json, one value per variable of the go
\* tool, taken from the process where it is set there
getGoEnv(environ) ==
    [n \in GoVars |-> IF n \in DOMAIN environ THEN environ[n] ELSE "default"]

\* the directories os.MkdirTemp makes for an ephemeral cache
TempGoCache == "/tmp/cache1"

TempModCache == "/tmp/modcache1"

\* faulty variant of EphemeralOpts: a configured cache is kept
EphemeralOpts_keepsConfigured(o) ==
    IF o.EphemeralCache
    THEN [o EXCEPT !.GoCache = IF @ = "" THEN TempGoCache ELSE @,
                   !.GoModCache = IF @ = "" THEN TempModCache ELSE @]
    ELSE o

\* opts once newGoEnv has overridden the caches: opts.GoCache = goCache,
\* opts.GoModCache = modCache
EphemeralOpts(o) ==
    IF o.EphemeralCache
    THEN [o EXCEPT !.GoCache = TempGoCache, !.GoModCache = TempModCache]
    ELSE o

\* the assignments env[...] = ... of newGoEnv
ExplicitEnv(o, environ) ==
    LET always == [n \in {"PATH", "GOOS", "GOARCH", "CGO_ENABLED"} |->
                     IF n = "PATH" THEN osGetenv(environ, "PATH")
                     ELSE IF n = "GOOS" THEN platform.OS
                     ELSE IF n = "GOARCH" THEN platform.Arch
                     ELSE IF o.Cgo THEN "true" ELSE "false"]
        cache == IF o.GoCache # "" THEN [n \in {"GOCACHE"} |-> o.GoCache] ELSE <<>>
        modcache == IF o.GoModCache # "" THEN [n \in {"GOMODCACHE"} |-> o.GoModCache]
                    ELSE <<>>
        proxy == IF o.GoProxy # "" THEN [n \in {"GOPROXY"} |-> o.GoProxy] ELSE <<>>
    IN  Overlay(Overlay(Overlay(always, cache), modcache), proxy)

\* faulty variant of goEnvEnv: the copied values are written over the
\* explicit ones
goEnvEnv_copiedWins(o, environ) ==
    IF o.CopyGoEnv
    THEN Overlay(ExplicitEnv(EphemeralOpts(o), environ), getGoEnv(environ))
    ELSE ExplicitEnv(EphemeralOpts(o), environ)

\* the field env of the goEnv that newGoEnv returns, as a map
goEnvEnv(o, environ) ==
    Overlay(IF o.CopyGoEnv THEN getGoEnv(environ) ELSE <<>>,
            ExplicitEnv(EphemeralOpts(o), environ))

\* the arguments compile gives to runGo
compileArgs(outPath, buildFlags) == <<"build", "-o", outPath>> \o buildFlags

\* errors.Join(errs...): nil when every error is nil, else one error that
\* holds those that are not
errorsJoin(errs) ==
    LET some == {k \in 1..Len(errs) : ~errs[k].nil}
        RECURSIVE texts(_)
        texts(k) == IF k = 0 THEN <<>>
                    ELSE texts(k - 1) \o (IF k \in some THEN errs[k].text ELSE <<>>)
    IN  IF some = {} THEN NoError
        ELSE [nil |-> FALSE, is |-> UNION {errs[k].is : k \in some}, text |-> texts(Len(errs))]

\* clean: fmt.Errorf("cleaning: %s", err.Error()) of the error of runGo
clean(err) ==
    IF err.nil THEN NoError
    ELSE [nil |-> FALSE, is |-> {}, text |-> <<"cleaning">> \o err.text]

\* faulty variant of goEnvClose: the directories are left when the clean
\* has failed
goEnvClose_stopsAtClean(o, cleanErr, rmCache, rmModCache) ==
    IF ~o.EphemeralCache THEN [did |-> <<>>, err |-> NoError]
    ELSE IF ~clean(cleanErr).nil THEN [did |-> <<"clean">>, err |-> clean(cleanErr)]
    ELSE [did |-> <<"clean", o.GoCache, o.GoModCache>>,
          err |-> errorsJoin(<<clean(cleanErr), rmCache, rmModCache>>)]

\* goEnv.close: what it attempts, in order, and the error it returns, given
\* the results of the clean command and of the two os.RemoveAll
goEnvClose(o, cleanErr, rmCache, rmModCache) ==
    IF ~o.EphemeralCache THEN [did |-> <<>>, err |-> NoError]
    ELSE [did |-> <<"clean", o.GoCache, o.GoModCache>>,
          err |-> errorsJoin(<<clean(cleanErr), rmCache, rmModCache>>)]

\* environments of the process that are tried: PATH is always set
Environs ==
    { Overlay([n \in {"PATH"} |-> "/bin"], Overlay(h, Overlay(g, Overlay(x, c)))) :
        h \in {<<>>, [n \in {"HOME"} |-> "/home"]},
        g \in {<<>>, [n \in {"GOOS"} |-> "darwin"]},
        x \in {<<>>, [n \in {"GOPROXY"} |-> "off"]},
        c \in {<<>>, [n \in {"GOCACHE"} |-> "/home/cache"]} }

GoOptsEnv ==
    [CopyGoEnv : BOOLEAN, Cgo : BOOLEAN, GoCache : {"", "/cache"},
     GoModCache : {"", "/mod"}, GoProxy : {"", "direct"}, EphemeralCache : BOOLEAN]

k6Path == "/tmp/k6foundry1/k6"

\* the commands of the manifest steps and of compile as Build calls it
GoCommands ==
    { <<"mod", "init", "k6">>, <<"mod", "edit", "-require">>,
      <<"mod", "tidy", "-compat=1.17">>, compileArgs(k6Path, <<>>) }

\* the results of a runGo: nil, a failed command, an interrupted one
RunGoErrors ==
    { NoError, ErrorfSentinel(ErrExecutingGoCommand, ErrorNew("exec.ExitError")),
      ErrorNew("context.Canceled") }

RemoveAllErrors == {NoError, ErrorNew("os.PathError")}

InitEnv ==
    /\ eOpts \in GoOptsEnv
    /\ eEnviron \in Environs
    /\ eEnv = <<>> /\ eCmd = <<>>
    /\ eDirs = {} /\ eClose = <<>>
    /\ eStep = "given"
    /\ sameBuilder = FALSE
    /\ InitProcess
    /\ InitNoModule
    /\ InitNoBuild

\* newGoEnv(workDir, opts, platform, stdout, stderr) when it succeeds
envNewGoEnv ==
    /\ eStep = "given"
    /\ eStep' = "made"
    /\ eEnv' = goEnvEnv(eOpts, eEnviron)
    /\ eDirs' = IF eOpts.EphemeralCache THEN {TempGoCache, TempModCache} ELSE {}
    /\ UNCHANGED <<coreVars, processVars, moduleVars, eOpts, eEnviron, eCmd, eClose>>

\* runGo: cmd := exec.Command("go", args...); cmd.Env = e.env
envRunGo ==
    /\ eStep \in {"made", "run"}
    /\ eStep' = "run"
    /\ \E c \in GoCommands : eCmd' = [args |-> c, Env |-> eEnv]
    /\ UNCHANGED <<coreVars, processVars, moduleVars, eOpts, eEnviron, eEnv, eDirs, eClose>>

\* e.close(ctx)
envClose ==
    /\ eStep \in {"made", "run"}
    /\ eStep' = "closed"
    /\ \E cleanErr \in RunGoErrors, rmCache, rmModCache \in RemoveAllErrors :
          LET r == goEnvClose(EphemeralOpts(eOpts), cleanErr, rmCache, rmModCache)
              attempted(d) == \E k \in 1..Len(r.did) : r.did[k] = d
          IN  /\ eClose' = [did |-> r.did, err |-> r.err,
                            given |-> <<cleanErr, rmCache, rmModCache>>]
              /\ eCmd' = IF attempted("clean")
                         THEN [args |-> <<"clean", "-cache", "-modcache">>, Env |-> eEnv]
                         ELSE eCmd
              /\ eDirs' = eDirs \ ((IF attempted(TempGoCache) /\ rmCache.nil
                                     THEN {TempGoCache} ELSE {})
                                    \cup (IF attempted(TempModCache) /\ rmModCache.nil
                                          THEN {TempModCache} ELSE {}))
    /\ UNCHANGED <<coreVars, processVars, moduleVars, eOpts, eEnviron, eEnv>>

NextEnv == envNewGoEnv \/ envRunGo \/ envClose

SpecEnv == InitEnv /\ [][NextEnv]_vars

(***************************************************************************)
(* Properties.                                                             *)
(***************************************************************************)
Range(q) == {q[j] : j \in 1..Len(q)}

IsPrefix(a, b) == Len(a) <= Len(b) /\ SubSeq(b, 1, Len(a)) = a

Last(q) == q[Len(q)]

Returned == pc = "done"

\* the j-th external step of a build that runs to its end
ExpectedStep(j) ==
    LET base == <<[op |-> "init", ext |-> 0], [op |-> "write", ext |-> 0],
                  [op |-> "require", ext |-> 0], [op |-> "tidy", ext |-> 0]>>
        turn == <<"write", "require", "tidy">>
    IN  IF j <= Len(base) THEN base[j]
        ELSE IF j <= Len(base) + Len(turn) * Len(mods)
        THEN [op  |-> turn[((j - Len(base) - 1) % Len(turn)) + 1],
              ext |-> ((j - Len(base) - 1) \div Len(turn)) + 1]
        ELSE [op |-> "compile", ext |-> 0]

ExpectedLen == Len(mods) * 3 + 5

ExpectedPhases ==
    <<"Created", "WorkspaceReady", "ModuleInitialized", "BaseAdded">>
        \o [j \in 1..Len(mods) |-> "ExtensionAdded"] \o <<"Compiled", "Done">>

PathOfExt(e) == IF e = 0 THEN defaultK6ModulePath ELSE mods[e].PackagePath

\* C1: the external steps are issued in the order init, base (write, require,
\* tidy), then per extension in the caller's order (write, require, tidy), then
\* compile; the build goes through Created, WorkspaceReady, ModuleInitialized,
\* BaseAdded, one ExtensionAdded per extension, Compiled, Done without
\* skipping or repeating one, leaving only to Failed; and every manifest edit
\* is followed by a tidy before anything else is issued.
C1_OrderedSteps ==
    /\ Len(log) <= ExpectedLen
    /\ \A j \in 1..Len(log) :
          /\ log[j].op = ExpectedStep(j).op
          /\ log[j].ext = ExpectedStep(j).ext
          /\ log[j].op = "require" => IsPrefix(PathOfExt(log[j].ext), log[j].arg)
          /\ (log[j].op = "require" /\ j < Len(log)) => log[j + 1].op = "tidy"
    /\ \/ IsPrefix(phases, ExpectedPhases)
       \/ /\ Last(phases) = "Failed"
          /\ IsPrefix(SubSeq(phases, 1, Len(phases) - 1), ExpectedPhases)
          /\ Len(phases) <= Len(ExpectedPhases)
    /\ (Returned /\ buildErr.nil) =>
          Len(log) = ExpectedLen /\ phases = ExpectedPhases

\* a build with the most extensions has run to its end
C1_Witness == Returned /\ buildErr.nil /\ Len(mods) >= 2 /\ Len(log) = ExpectedLen

\* C2: once a step has returned an error nothing more is issued: the log stays
\* as long as it was at the first error, so after a dependency failure for
\* extension i there is no step of a later extension and no compile.
C2_AbortOnFirstError ==
    errAt # -1 =>
        /\ Len(log) = errAt
        /\ (errAt >= 1 /\ Last(log).op # "compile") =>
              \A j \in 1..Len(log) : log[j].ext <= Last(log).ext /\ log[j].op # "compile"

\* the requirement of the first of two extensions failed
C2_Witness ==
    /\ Returned /\ Len(mods) >= 2 /\ errAt >= 1
    /\ call.op = "require" /\ ~supErr.nil
    /\ Last(log).op = "require" /\ Last(log).ext = 1

C4_SinkAfterCompile ==
    /\ out # "empty" => "Compiled" \in Range(phases)
    /\ (Returned /\ ~buildErr.nil /\ "Compiled" \notin Range(phases)) => out = "empty"

\* compile was cancelled although its process had written the binary
C4_Witness ==
    /\ Returned /\ ~buildErr.nil /\ call.op = "compile" /\ branch = "cancel"
    /\ k6File \in files /\ out = "empty"

\* C5: whenever the process was started, cmd.Wait is called exactly once, in
\* every branch; it is never called when the process was not started.
C5_WaitExactlyOnce ==
    /\ waitCalls <= 1
    /\ proc = "none" => waitCalls = 0
    /\ (sup = "returned" /\ proc # "none") => waitCalls = 1

\* runGo has returned through the forced kill
C5_Witness == sup = "returned" /\ killCalls = 1 /\ waitCalls = 1 /\ branch = "cancel"

\* C6: each call spawns exactly one waiter and the waiter has delivered its
\* result and ended by the time the call returns, in every branch.
C6_WaiterJoined ==
    (sup = "returned" /\ proc # "none") => spawned = 1 /\ waiter = "done"

\* C7: Kill is issued at most once, only in the cancellation branch, only
\* when the whole grace window has passed since the context was done without
\* the completion having been received; not while the window runs, not in the
\* natural-completion branch, not when the completion arrived in the window.
C7_KillOnlyAfterGrace ==
    /\ killCalls <= 1
    /\ killCalls = 1 => branch = "cancel" /\ waiter # "done"
    /\ (sup = "returned" /\ killCalls = 1) =>
          doneAt >= 0 /\ elapsed - doneAt >= GraceWindow
    /\ (sup = "grace" /\ graceLeft > 0) => killCalls = 0
    /\ branch = "natural" => killCalls = 0
    /\ (branch = "cancel" /\ waiter = "done") => killCalls = 0

\* the process outlived the grace window and was killed
C7_Witness == sup = "returned" /\ killSent /\ proc = "running" /\ graceLeft = 0

\* C8: in the cancellation branch runGo returns the context's error even if
\* the process exited successfully in the grace window; in the
\* natural-completion branch it returns the result of the process; so it
\* returns nil only in the natural branch after a successful exit.
C8_ReturnedError ==
    (sup = "returned" /\ proc # "none") =>
        /\ branch \in {"natural", "cancel"}
        /\ branch = "cancel" =>
              supErr = ErrorNew(ctxErr) /\ ctxErr \in CancellationKinds
        /\ branch = "natural" =>
              /\ supErr = cmdErr
              /\ supErr.nil <=> procStatus = "ok"
              /\ ~supErr.nil => ErrorsIs(supErr, ErrExecutingGoCommand)
        /\ supErr.nil => branch = "natural" /\ procStatus = "ok"

\* cancelled, the process then exited successfully within the grace window
C8_Witness ==
    /\ sup = "returned" /\ branch = "cancel" /\ procStatus = "ok" /\ waiter = "done"
    /\ graceLeft > 0 /\ ~supErr.nil

\* C9: a call with a positive timeout whose process is still running when the
\* deadline is seen returns a cancellation error no later than timeout plus
\* the grace window, and by then the process has ended and been reaped.
C9_TimeoutReaped ==
    (/\ sup = "returned" /\ call.timeout > 0
     /\ ctxErr = "context.DeadlineExceeded" /\ runningAtCancel) =>
        /\ supErr.is \cap CancellationKinds # {}
        /\ elapsed <= call.timeout + GraceWindow
        /\ proc = "reaped"

StepKinds ==
    {"ErrSettingGoEnv", "ErrResolvingDependency", "ErrCompiling", ErrExecutingGoCommand}

\* C10: when the step that failed took the cancellation branch, the error
\* Build returns is a cancellation error and none of the step failures.
C10_CancellationKind ==
    (Returned /\ ~buildErr.nil /\ branch = "cancel") =>
        /\ buildErr.is \cap CancellationKinds # {}
        /\ buildErr.is \cap StepKinds = {}

\* the sentinel of the step that issues a command
SentinelOf(op) ==
    IF op = "init" THEN "ErrSettingGoEnv"
    ELSE IF op = "compile" THEN "ErrCompiling"
    ELSE "ErrResolvingDependency"

\* the error a manifest step makes of the error of its runGo
StepResult(op, err) ==
    IF op = "init" THEN modInit(err)
    ELSE IF op = "require" THEN modRequire(err)
    ELSE IF op = "replace" THEN modReplace(err)
    ELSE IF op = "tidy" THEN modTidy(err)
    ELSE compile(err)

ManifestOps == {"init", "require", "replace", "tidy", "compile"}

KindsOf(err) ==
    {k \in {"prerequisite", "workspace", "initialization", "dependency", "compilation",
            "execution", "cancellation"} :
        \/ k = "prerequisite" /\ err.is \cap {"ErrNoGoToolchain", "ErrNoGit"} # {}
        \/ k = "initialization" /\ "ErrSettingGoEnv" \in err.is
        \/ k = "dependency" /\ "ErrResolvingDependency" \in err.is
        \/ k = "compilation" /\ "ErrCompiling" \in err.is
        \/ k = "execution" /\ ErrExecutingGoCommand \in err.is
        \/ k = "cancellation" /\ err.is \cap CancellationKinds # {}
        \/ k = "workspace" /\ err.text # <<>>
              /\ err.text[1] \in {"creating working directory", "creating mod cache",
                                  "creating go cache", "writing file"}}

\* C12: a build that failed returns one error, and that error has a kind of
\* the taxonomy, whichever step failed.
C12_TaxonomyKind ==
    Returned =>
        /\ (~buildErr.nil) <=> (Last(phases) = "Failed")
        /\ Cardinality({j \in 1..Len(phases) : phases[j] = "Failed"}) <= 1
        /\ ~buildErr.nil => KindsOf(buildErr) # {}

\* C13: a build that used an ephemeral cache and got its environment (its
\* first command was issued) has removed both cache directories when it
\* returns, on success and on failure.
C13_CachesClosed ==
    (Returned /\ opts.EphemeralCache /\ Len(log) >= 1) => cacheDirs = {}

PrerequisiteErrors == {"ErrNoGoToolchain", "ErrNoGit"}

\* C14: when Build reports a missing toolchain or a missing git, no workspace
\* directory has been created and no command has been issued.
C14_PrerequisiteFirst ==
    (buildErr.is \cap PrerequisiteErrors # {}) => workDir = "none" /\ log = <<>>

\* C15: no command of the sequence is started twice in a build, and once a
\* command has failed the build is on its way out with that command as the
\* last one issued.
C15_NoRetry ==
    /\ \A i, j \in 1..Len(log) :
          (log[i].op = log[j].op /\ log[i].ext = log[j].ext) => i = j
    /\ (sup = "idle" /\ ~supErr.nil) =>
          /\ pc \in {"deferred", "done"}
          /\ Last(log).op = call.op
          /\ Len(log) = errAt

\* the tidy of the base module failed and the build returned
C15_Witness ==
    /\ Returned /\ ~supErr.nil /\ call.op = "tidy" /\ Last(log).ext = 0 /\ Len(log) = 4

\* the positions at which a call relies on the fields it stored in its builder
InBuild == {"stderr", "SetOutput", "SetFlags", "MkdirTemp", "steps", "close", "closeFlags",
            "closeOutput", "closeStderr"}

\* C16: two concurrent Build calls never have the same workspace, neither
\* finds its builder's log writer replaced by the other, and when both have
\* returned the process-wide logger and os.Stderr are what they were before.
C16_NoSharedState ==
    /\ (bWorkDir[1] # "none" /\ bWorkDir[2] # "none"
          /\ bpc[1] # "done" /\ bpc[2] # "done") => bWorkDir[1] # bWorkDir[2]
    /\ \A i \in Builds : bpc[i] \in InBuild => builder[BuilderOf(i)].logWriter = WriterOf(i)
    /\ (\A i \in Builds : bpc[i] = "done") =>
          /\ stdlog = [out |-> "orig", flags |-> "orig"]
          /\ osStderr = "orig"

\* a version go resolves only at tidy: "latest", or none
Floating(v) == v = latest \/ v = <<>>

\* the version in the argument path[@version] of `go mod edit -require`
ArgVersion(arg) ==
    LET at == {k \in 1..Len(arg) : arg[k] = "@"}
    IN  IF at = {} THEN <<>> ELSE Tail0(arg, Max(at) + 1)

\* the tidy that followed the requirement of module e (0: the base) returned nil
TidySucceeded(e) ==
    IF e = 0 THEN "BaseAdded" \in Range(phases)
    ELSE Cardinality({k \in 1..Len(phases) : phases[k] = "ExtensionAdded"}) >= e

\* C17: once compile has been issued, every requirement that was added with
\* the version "latest" or with no version has been followed by a tidy that
\* succeeded.
C17_NoFloatingAtCompile ==
    (\E c \in 1..Len(log) : log[c].op = "compile") =>
        \A j \in 1..Len(log) :
            (log[j].op = "require" /\ Floating(ArgVersion(log[j].arg))) =>
                \E t \in (j + 1)..Len(log) :
                    log[t].op = "tidy" /\ TidySucceeded(log[t].ext)

\* compile issued for k6 at "latest" with an extension
C17_Witness ==
    /\ Len(log) >= 1 /\ Last(log).op = "compile" /\ sup = "start"
    /\ k6Version = latest /\ Len(mods) >= 1
    /\ ArgVersion(log[3].arg) = latest

\* an import path: elements separated by single slashes, none empty, none a
\* dot or a double dot
ImportPathShaped(path) ==
    /\ path # <<>>
    /\ \A j \in 1..Len(SplitSlash(path)) :
          SplitSlash(path)[j] \notin {<<>>, <<".">>, <<".", ".">>}

\* K when the path ends in /vK, K a run of digits, else the empty string
MajorSuffix(path) ==
    LET d == Max({k \in 0..Len(path) :
                    \A j \in (Len(path) - k + 1)..Len(path) : path[j] \in Digits})
    IN  IF d >= 1 /\ Len(path) - d >= 3
           /\ path[Len(path) - d] = "v" /\ path[Len(path) - d - 1] = "/"
        THEN Tail0(path, Len(path) - d + 1)
        ELSE <<>>

\* N of a version vN...: the digits after the v
MajorDigits(version) == SubSeq(version, 2, 1 + DigitRun(Tail0(version, 2)))

\* C18: for an import path and a version, versionedModulePath returns the
\* path unchanged without error when the version is no semantic version;
\* otherwise, N being the major, a path ending in /vK comes back unchanged
\* when K = N and is an error when K differs, and a path without such an end
\* comes back unchanged for N 0 or 1 and with /vN appended for N >= 2.
C18_VersionedPathRule ==
    (mStep = "versioned" /\ ImportPathShaped(mPath)) =>
        LET unchanged == mVersioned.err.nil /\ mVersioned.path = mPath
            N == MajorDigits(mVersion)
            K == MajorSuffix(mPath)
        IN  IF ~semverIsValid(mVersion) THEN unchanged
            ELSE IF K # <<>> THEN (IF K = N THEN unchanged ELSE ~mVersioned.err.nil)
            ELSE IF N \in {<<"0">>, <<"1">>} THEN unchanged
            ELSE /\ mVersioned.err.nil
                 /\ mVersioned.path = mPath \o <<"/", "v">> \o N

\* x.y/a/v3 asked at v2.1: the conflict is an error
C18_Witness ==
    /\ mStep = "versioned" /\ ImportPathShaped(mPath)
    /\ MajorSuffix(mPath) = <<"3">> /\ mVersion = <<"v", "2", ".", "1">>
    /\ ~mVersioned.err.nil

\* a version of the form vX.Y.Z or vX.Y.Z-pre, without a build tag
CanonicalForm(v) ==
    /\ semverIsValid(v)
    /\ Cardinality({j \in 1..Len(v) : v[j] = "+"}) = 0
    /\ LET dash == {j \in 1..Len(v) : v[j] = "-"}
           core == IF dash = {} THEN v
                   ELSE SubSeq(v, 1, (CHOOSE j \in dash : \A k \in dash : j <= k) - 1)
       IN  Cardinality({j \in 1..Len(core) : core[j] = "."}) = 2

\* v without its build tag, completed with .0 for a missing minor or patch
WithZeros(v) ==
    LET plus == {j \in 1..Len(v) : v[j] = "+"}
        w == IF plus = {} THEN v
             ELSE SubSeq(v, 1, (CHOOSE j \in plus : \A k \in plus : j <= k) - 1)
        dots == Cardinality({j \in 1..Len(w) : w[j] = "."})
    IN  IF \E j \in 1..Len(w) : w[j] = "-" THEN w
        ELSE IF dots = 0 THEN w \o <<".", "0", ".", "0">>
        ELSE IF dots = 1 THEN w \o <<".", "0">>
        ELSE w

C22_PathErrorDistinct ==
    (mStep = "parsed" /\ ~mReplace.given) =>
        LET versionBad == mAt /\ mVersion \notin {<<>>, latest} /\ ~semverIsValid(mVersion)
            formatBad == mAt /\ (mPath = <<>> \/ mVersion = <<>>)
        IN  /\ (~formatBad /\ ~versionBad /\ ~CheckPath(mPath))
                  => mParsed.err.is = {"ErrInvalidPath"}
            /\ "ErrInvalidPath" \in mParsed.err.is => ~CheckPath(mPath)
            /\ "ErrInvalidSemanticVersion" \in mParsed.err.is => versionBad

C26_PinnedBaseBuild ==
    (Returned /\ mods = <<>> /\ semverIsValid(k6Version) /\ errAt = -1) =>
        /\ buildErr.nil
        /\ out = "complete"
        /\ Last(phases) = "Done"
        /\ {j \in 1..Len(log) : log[j].op = "require"} = {3}
        /\ log[3].ext = 0
        /\ log[3].arg = defaultK6ModulePath \o <<"@">> \o k6Version
        /\ Last(log).op = "compile"

\* k6 v0.1.0 alone has been built
C26_Witness ==
    /\ Returned /\ mods = <<>> /\ k6Version = <<"v", "0", ".", "1", ".", "0">>
    /\ buildErr.nil /\ out = "complete"
    /\ ArgVersion(log[3].arg) = <<"v", "0", ".", "1", ".", "0">>

C28_TimeoutLayered ==
    (call.op # "none" /\ sup # "idle") =>
        /\ call.timeout <= 0 => deadlineLeft = -1 /\ ctxErr # "context.DeadlineExceeded"
        /\ ctxErr = "context.DeadlineExceeded" => call.timeout > 0 /\ doneAt = call.timeout
        /\ ctxErr = "context.Canceled" =>
              /\ ambient = "context.Canceled"
              /\ call.timeout > 0 => doneAt <= call.timeout
        /\ (InCall /\ ctxErr = "none") =>
              /\ ambient = "none"
              /\ call.timeout > 0 =>
                    deadlineLeft = call.timeout - elapsed /\ elapsed <= call.timeout
        /\ (InCall /\ ambient # "none") => ctxErr # "none"

\* a call with a timeout was cancelled by the caller before the timeout
C28_Witness ==
    /\ InCall /\ call.timeout > 0 /\ ctxErr = "context.Canceled"
    /\ doneAt > 0 /\ doneAt < call.timeout

\* the version asked for module e (0: k6)
VersionOfExt(e) == IF e = 0 THEN k6Version ELSE mods[e].Version

\* C29: every requirement is written as path@version, never as a bare path:
\* a requirement asked with an empty version is written with the version
\* latest.
C29_RequireHasVersion ==
    \A j \in 1..Len(log) :
        log[j].op = "require" =>
            /\ \E k \in 1..Len(log[j].arg) : log[j].arg[k] = "@"
            /\ ArgVersion(log[j].arg) # <<>>
            /\ VersionOfExt(log[j].ext) = <<>> => ArgVersion(log[j].arg) = latest

\* C30: the replacement modReplace writes is never a relative path of the
\* filesystem.
C30_ReplaceAbsolute ==
    mStep = "edited" => ~RelativePath(stringsCut(mEdit, "=").after)

\* C31: every go build command has -o with the path of the binary and
\* -trimpath among its arguments.
C31_CompileFlags ==
    (eCmd # <<>> /\ eCmd.args[1] = "build") =>
        /\ \E k \in 1..(Len(eCmd.args) - 1) : eCmd.args[k] = "-o" /\ eCmd.args[k + 1] = k6Path
        /\ \E k \in 1..Len(eCmd.args) : eCmd.args[k] = "-trimpath"

\* C32: with EphemeralCache every command has the two directories newGoEnv
\* made as GOCACHE and GOMODCACHE, whatever GoCache and GoModCache were
\* and whatever go env reports.
C32_EphemeralCacheWins ==
    (eCmd # <<>> /\ eOpts.EphemeralCache) =>
        /\ eCmd.Env["GOCACHE"] = TempGoCache
        /\ eCmd.Env["GOMODCACHE"] = TempModCache
        /\ {TempGoCache, TempModCache} \cap {eOpts.GoCache, eOpts.GoModCache, "default"} = {}

\* a command of a goEnv made with GoCache /cache and with GOCACHE set in the
\* copied environment runs with the temporary directories
C32_Witness ==
    /\ eStep = "run" /\ eOpts.EphemeralCache /\ eOpts.CopyGoEnv
    /\ eOpts.GoCache = "/cache" /\ eOpts.GoModCache = "/mod"
    /\ "GOCACHE" \in DOMAIN eEnviron
    /\ eCmd.Env["GOCACHE"] = TempGoCache /\ eCmd.Env["GOMODCACHE"] = TempModCache

\* C33: close of a goEnv without an ephemeral cache does nothing and returns
\* nil. With one it runs go clean, then removes the cache directory, then
\* the module cache directory, all three whatever the results of the ones
\* before, and its error is nil exactly when all three succeeded and holds
\* the message of every one that failed.
C33_CloseJoinsAll ==
    eStep = "closed" =>
        IF ~eOpts.EphemeralCache
        THEN eClose.did = <<>> /\ eClose.err.nil /\ eDirs = {}
        ELSE /\ eClose.did = <<"clean", TempGoCache, TempModCache>>
             /\ eCmd.args = <<"clean", "-cache", "-modcache">>
             /\ eClose.err.nil <=> \A k \in 1..3 : eClose.given[k].nil
             /\ \A k \in 1..3 :
                   \A m \in 1..Len(eClose.given[k].text) :
                       \E n \in 1..Len(eClose.err.text) :
                           eClose.err.text[n] = eClose.given[k].text[m]
             /\ eClose.given[2].nil <=> TempGoCache \notin eDirs
             /\ eClose.given[3].nil <=> TempModCache \notin eDirs

\* the clean was interrupted; both directories were removed all the same
\* and the error of the clean is returned
C33_Witness ==
    /\ eStep = "closed" /\ eOpts.EphemeralCache
    /\ eClose.given[1] = ErrorNew("context.Canceled")
    /\ eClose.given[2].nil /\ eClose.given[3].nil
    /\ eDirs = {} /\ ~eClose.err.nil

\* C34: for every extension the blank-import file imports the version-qualified
\* module path, is named from that path with every separator replaced by an
\* underscore and the source extension appended, and the requirement written
\* right after it names the same version-qualified path.
C34_ImportMatchesRequire ==
    \A j \in 1..Len(log) :
        (log[j].op = "write" /\ log[j].ext >= 1) =>
            LET m == mods[log[j].ext]
                vp == versionedModulePath(m.PackagePath, m.Version).path
            IN  /\ log[j].imports = vp
                /\ log[j].arg = ReplaceAll(vp, "/", "_") \o <<".", "g", "o">>
                /\ \A k \in 1..Len(log[j].arg) : log[j].arg[k] # "/"
                /\ j < Len(log) =>
                      /\ log[j + 1].op = "require"
                      /\ log[j + 1].ext = log[j].ext
                      /\ Len(log[j + 1].arg) > Len(vp)
                      /\ SubSeq(log[j + 1].arg, 1, Len(vp)) = vp
                      /\ log[j + 1].arg[Len(vp) + 1] = "@"

\* x/a at v2.1.0 was given: x_a_v2.go imports x/a/v2 and x/a/v2@v2.1.0 has
\* been required
C34_Witness ==
    \E j \in 1..(Len(log) - 1) :
        /\ log[j].op = "write" /\ log[j].ext >= 1
        /\ mods[log[j].ext].PackagePath = <<"x", "/", "a">>
        /\ log[j].imports = <<"x", "/", "a", "/", "v", "2">>
        /\ log[j].arg = <<"x", "_", "a", "_", "v", "2", ".", "g", "o">>
        /\ log[j].arg \in files
        /\ log[j + 1].op = "require"
        /\ log[j + 1].arg = <<"x", "/", "a", "/", "v", "2", "@", "v", "2", ".", "1", ".", "0">>

\* C35: the ambient context governs the start of every subprocess: once it has
\* been cancelled no further external process is started, a step invoked with
\* a cancelled context returns without starting its command.
C35_NoStartAfterCancel ==
    [][(ambient # "none" /\ proc = "none") => proc' = "none"]_vars

\* C36: generated source files never overwrite each other: extensions with
\* distinct import paths get distinct blank-import files, none of them is
\* named main.go, and the workspace holds the entry point and one import file
\* for each distinct extension.
C36_DistinctSourceFiles ==
    mStep = "written" =>
        /\ \A i, j \in 1..Len(mFiles) :
              mFiles[i].imports # mFiles[j].imports => mFiles[i].file # mFiles[j].file
        /\ \A i \in 2..Len(mFiles) : mFiles[i].file # mainFile
        /\ Cardinality({mFiles[i].file : i \in 1..Len(mFiles)})
              = 1 + Cardinality({mFiles[i].imports : i \in 2..Len(mFiles)})

\* C37: newGoEnv is all-or-nothing for the ephemeral cache directories: when
\* it returns an error, no ephemeral cache directory it created remains. A
\* build that failed before its first command failed in os.MkdirTemp of the
\* workspace or in newGoEnv.
C37_NoCacheLeftOnError ==
    (Returned /\ ~buildErr.nil /\ Len(log) = 0) => cacheDirs = {}

\* C38: every Module ParseModule returns is already version-qualified and
\* consistent: the major-suffix rule applied to its PackagePath and Version
\* succeeds and returns the PackagePath unchanged, a conflict between a /vK
\* suffix and the version having been rejected by the parse.
C38_ParsedIsQualified ==
    (mStep \in {"parsed", "reparsed"} /\ ~mReplace.given /\ mParsed.err.nil) =>
        LET vp == versionedModulePath(mParsed.mod.PackagePath, mParsed.mod.Version)
        IN  vp.err.nil /\ vp.path = mParsed.mod.PackagePath

\* C39: a specification with an '@' and nothing before it, or nothing after it,
\* fails with the invalid-format error: an empty version after an explicit '@'
\* is not defaulted to latest, and the format is checked before the path and
\* the version are.
C39_FormatFirst ==
    (mStep \in {"parsed", "reparsed"} /\ ~mReplace.given /\ mAt
       /\ (mPath = <<>> \/ mVersion = <<>>)) =>
        /\ ~mParsed.err.nil
        /\ mParsed.err.is = {"ErrInvalidDependencyFormat"}
        /\ mParsed.mod = NoModule

\* "@abc123", an invalid version with no path, and "xy/a@", an invalid path
\* with no version, have been refused as ill-formed
C39_Witness ==
    /\ mStep = "parsed" /\ ~mReplace.given /\ mAt
    /\ \/ mPath = <<>> /\ mVersion = <<"a", "b", "c", "1", "2", "3">>
       \/ mPath = <<"x", "y", "/", "a">> /\ mVersion = <<>>
    /\ mParsed.err.is = {"ErrInvalidDependencyFormat"}

====
